---- MODULE Spec2Model ----
(***************************************************************************)
(* Model of the diagnostic dashboards and their tooling:                   *)
(*  - the roadmap page of the Customer Operations Assessment UI:           *)
(*    FunctionRollup, PriorityRoadmap, RoadmapSummary (PriorityRoadmap.tsx)*)
(*    and PriorityMatrix;                                                  *)
(*  - the charts and badges: NRRBenchmark, MaturityAssessment, the         *)
(*    offshoring badges of RoleDetail, the competitive-context badges of   *)
(*    the journey maps and their stage colours, PeerComparison and the     *)
(*    other ratios of the assessment UI, the rows of DiagnosticsTable;     *)
(*  - the loads of DiagnosticsTable and App and the portal's FeedbackForm; *)
(*  - scripts/new-diagnostic.sh and scripts/deploy.sh, with the local and  *)
(*    the remote diagnostics.json.                                         *)
(*                                                                         *)
(* JavaScript values of type number are tagged records (Num, NaN,          *)
(* Undefined); the impact numbers are integers, so sums are exact.  A      *)
(* component is one action: the call of its function body by the React     *)
(* renderer, with the children it renders; an asynchronous handler is one  *)
(* action up to its await and one for what follows it.                     *)
(***************************************************************************)
EXTENDS Integers, Sequences, FiniteSets, TLC

VARIABLES
    items,            \* props.items of a FunctionRollup rendered on its own
    rollup,           \* what that FunctionRollup rendered, or NotRendered
    objectStatics,    \* properties left on objects that every {} inherits from
    matrixItems,      \* props.items of PriorityMatrix
    matrix,           \* what PriorityMatrix rendered, or NotRendered
    roadmap,          \* props.roadmap of PriorityRoadmap: the loaded document
    expandedUseCase,  \* useState of PriorityRoadmap: an AI use case id or "null"
    view,             \* what PriorityRoadmap and its children rendered
    props,            \* props of the chart or badge component being rendered
    chart,            \* what that component rendered, or NotRendered
    table,            \* useState of the portal's DiagnosticsTable
    app,              \* useState of the assessment App
    form,             \* useState of the portal's FeedbackForm
    network,          \* HTTP requests: how many were sent, which are in flight
    storage,          \* localStorage of the portal: the gh_token item
    repo,             \* the files in the repository's feedback/ directory
    deploy,           \* the runs of scripts/deploy.sh: arguments, position and effects
    machine           \* what the scripts share: output/, diagnostics.json here and on GitHub

rollupVars == <<items, rollup>>

matrixVars == <<matrixItems, matrix>>

roadmapVars == <<roadmap, expandedUseCase, view>>

chartVars == <<props, chart>>

portalVars == <<table, app, form, network, storage, repo>>

deployVars == <<deploy, machine>>

\* Everything outside the roadmap page.
outsideVars == <<chartVars, portalVars, deployVars>>

vars == <<items, rollup, objectStatics, matrixItems, matrix, roadmap, expandedUseCase, view,
          props, chart, table, app, form, network, storage, repo, deploy, machine>>

\* A JavaScript value of type number | undefined: a finite number n is
\* Num(n), and n is its field v.
Num(n) == [t |-> "number", v |-> n]
NaN == [t |-> "NaN"]
Undefined == [t |-> "undefined"]
NotRendered == [t |-> "not rendered"]

IsNumber(x) == x.t = "number"

\* JavaScript a + b on number | NaN | undefined operands.
JsAdd(a, b) == IF IsNumber(a) /\ IsNumber(b) THEN Num(a.v + b.v) ELSE NaN

\* JavaScript a - b on number | NaN | undefined operands.
JsSub(a, b) == IF IsNumber(a) /\ IsNumber(b) THEN Num(a.v - b.v) ELSE NaN

(***************************************************************************)
(* Inputs.                                                                 *)
(***************************************************************************)
MaxItems == 3

\* function_key is any string.  "2" and "10" are canonical array indices,
\* "constructor" names a property that {} inherits from Object.prototype.
FunctionKeys == {"customer_success", "support", "2", "10", "constructor"}

Impacts == {5, 8, 10}

FunctionName(key) ==
    CASE key = "customer_success" -> "Customer Success"
      [] key = "support" -> "Support"
      [] OTHER -> key

RoleItems ==
    {[function_key |-> k, function |-> FunctionName(k), impact_ftes |-> Num(n)] :
        k \in FunctionKeys, n \in Impacts}

SeqsUpTo(S, n) == UNION {[1..m -> S] : m \in 0..n}

(***************************************************************************)
(* The object byFunction = {} of FunctionRollup.  Its own properties are   *)
(* kept in creation order; a property read falls back to Object.prototype. *)
(***************************************************************************)
\* ToUint32 value of a key that is a canonical array index, else -1.
ArrayIndex(key) ==
    CASE key = "2" -> 2
      [] key = "10" -> 10
      [] OTHER -> -1

\* Names every plain object inherits (Object.prototype.constructor is the
\* function Object; toString, valueOf, __proto__ ... behave alike).
InheritedNames == {"constructor"}

InitialStatics == [n \in InheritedNames |-> [totalFtes |-> Undefined, count |-> Undefined]]

HasOwn(obj, key) == \E i \in 1..Len(obj) : obj[i].function_key = key

OwnIndex(obj, key) == CHOOSE i \in 1..Len(obj) : obj[i].function_key = key

\* !byFunction[key]: false for an own group and for an inherited object.
IsFalsy(obj, key) == ~HasOwn(obj, key) /\ key \notin InheritedNames

\* One iteration of `for (const item of items)`.
RollupStep(acc, item) ==
    LET key == item.function_key
        created ==
            IF IsFalsy(acc.byFunction, key)
            THEN Append(acc.byFunction,
                        [function |-> item.function, function_key |-> key,
                         totalFtes |-> Num(0), count |-> Num(0)])
            ELSE acc.byFunction
    IN  IF HasOwn(created, key)
        THEN LET i == OwnIndex(created, key)
             IN  [byFunction |->
                      [created EXCEPT
                          ![i].totalFtes = JsAdd(@, item.impact_ftes),
                          ![i].count = JsAdd(@, Num(1))],
                  statics |-> acc.statics]
        ELSE \* byFunction[key] is the inherited object: += writes to it
             [byFunction |-> created,
              statics |->
                  [acc.statics EXCEPT
                      ![key].totalFtes = JsAdd(@, item.impact_ftes),
                      ![key].count = JsAdd(@, Num(1))]]

RECURSIVE RollupLoop(_, _)
RollupLoop(acc, its) ==
    IF its = <<>> THEN acc
    ELSE RollupLoop(RollupStep(acc, Head(its)), Tail(its))

\* Object.values(obj): array-index keys ascending, then the other keys in
\* creation order.
RECURSIVE IndexKeysAscending(_, _)
IndexKeysAscending(obj, above) ==
    LET rest == {i \in 1..Len(obj) : ArrayIndex(obj[i].function_key) > above}
    IN  IF rest = {} THEN <<>>
        ELSE LET i == CHOOSE i \in rest :
                        \A j \in rest :
                            ArrayIndex(obj[i].function_key) <= ArrayIndex(obj[j].function_key)
             IN  <<obj[i]>> \o IndexKeysAscending(obj, ArrayIndex(obj[i].function_key))

SelectSeqNonIndex(obj) == SelectSeq(obj, LAMBDA g : ArrayIndex(g.function_key) < 0)

ObjectValues(obj) == IndexKeysAscending(obj, -1) \o SelectSeqNonIndex(obj)

\* (a, b) => b.totalFtes - a.totalFtes; sort reads a NaN result as +0.
CompareGroups(a, b) ==
    LET d == JsSub(b.totalFtes, a.totalFtes)
    IN  IF IsNumber(d) THEN d.v ELSE 0

\* Array.prototype.sort is stable: g goes behind every element that does
\* not compare greater than it.
InsertSorted(sorted, g) ==
    LET before == {i \in 1..Len(sorted) : CompareGroups(sorted[i], g) <= 0}
        k == IF before = {} THEN 0
             ELSE CHOOSE i \in before : \A j \in before : j <= i
    IN  SubSeq(sorted, 1, k) \o <<g>> \o SubSeq(sorted, k + 1, Len(sorted))

RECURSIVE SortGroups(_, _)
SortGroups(sorted, rest) ==
    IF rest = <<>> THEN sorted
    ELSE SortGroups(InsertSorted(sorted, Head(rest)), Tail(rest))

\* groups.reduce((s, g) => s + g.totalFtes, 0)
RECURSIVE ReduceTotalFtes(_, _)
ReduceTotalFtes(s, groups) ==
    IF groups = <<>> THEN s
    ELSE ReduceTotalFtes(JsAdd(s, Head(groups).totalFtes), Tail(groups))

\* Function color dot.
funcDotColor(fk) ==
    CASE fk = "professional_services" -> "bg-blue-400"
      [] fk = "customer_success" -> "bg-emerald-400"
      [] fk = "customer_support" -> "bg-amber-400"
      [] OTHER -> "bg-gray-400"

\* FunctionRollup looking at the Offshoring items only.
FunctionRollupOneLever(its, statics) ==
    LET own == SelectSeq(its, LAMBDA it : it.lever = "Offshoring")
        acc == RollupLoop([byFunction |-> <<>>, statics |-> statics], own)
        groups == SortGroups(<<>>, ObjectValues(acc.byFunction))
    IN  [groups |-> groups,
         totalFtes |-> ReduceTotalFtes(Num(0), groups),
         t |-> "rendered",
         dots |-> [i \in 1..Len(groups) |-> funcDotColor(groups[i].function_key)],
         statics |-> acc.statics]

\* The body of FunctionRollup: what it renders and what it leaves behind.
FunctionRollup(its, statics) ==
    LET acc == RollupLoop([byFunction |-> <<>>, statics |-> statics], its)
        groups == SortGroups(<<>>, ObjectValues(acc.byFunction))
    IN  [groups |-> groups,
         totalFtes |-> ReduceTotalFtes(Num(0), groups),
         t |-> "rendered",
         dots |-> [i \in 1..Len(groups) |-> funcDotColor(groups[i].function_key)],
         statics |-> acc.statics]

(***************************************************************************)
(* FunctionRollup on its own.                                              *)
(***************************************************************************)
(***************************************************************************)
(* The roadmap document (interface Roadmap).  An array is Arr(s); a        *)
(* missing year entry, list or number reads as Undefined.                  *)
(***************************************************************************)
Arr(s) == [t |-> "array", a |-> s]

\* const years = ['2026', '2027', '2028']
YearOrder == <<"2026", "2027", "2028">>

Years == {YearOrder[i] : i \in 1..Len(YearOrder)}

RoleLists == {"productivity", "offshoring"}

EmptyYear == [t |-> "object", productivity |-> Arr(<<>>), offshoring |-> Arr(<<>>), ai |-> Arr(<<>>)]

EmptyRoadmap == [years |-> [y \in Years |-> EmptyYear], ai_use_cases |-> Arr(<<>>)]

RoadmapIdle ==
    /\ roadmap = EmptyRoadmap
    /\ expandedUseCase = "null"
    /\ view = NotRendered

MatrixIdle ==
    /\ matrixItems = <<>>
    /\ matrix = NotRendered

ChartsIdle ==
    /\ props = [t |-> "none"]
    /\ chart = NotRendered

PortalIdle ==
    /\ table = [t |-> "unmounted"]
    /\ app = [t |-> "unmounted"]
    /\ form = [t |-> "unmounted"]
    /\ network = [sent |-> 0, pending |-> {}]
    /\ storage = [t |-> "null"]
    /\ repo = {}

DeployIdle == deploy = <<>> /\ machine = [t |-> "not used"]

OutsideIdle == ChartsIdle /\ PortalIdle /\ DeployIdle

InitRollup ==
    /\ items \in SeqsUpTo(RoleItems, MaxItems)
    /\ rollup = NotRendered
    /\ objectStatics = InitialStatics
    /\ MatrixIdle
    /\ RoadmapIdle
    /\ OutsideIdle

RenderFunctionRollup ==
    LET out == FunctionRollup(items, objectStatics)
    IN  /\ rollup' = [t |-> "rendered", groups |-> out.groups,
                      totalFtes |-> out.totalFtes, dots |-> out.dots]
        /\ objectStatics' = out.statics
        /\ UNCHANGED <<items, matrixVars, roadmapVars, outsideVars>>

NextRollup == RenderFunctionRollup

SpecRollup == InitRollup /\ [][NextRollup]_vars

(***************************************************************************)
(* Properties of FunctionRollup.                                           *)
(***************************************************************************)
RECURSIVE SumImpact(_)
SumImpact(its) ==
    IF its = <<>> THEN 0 ELSE Head(its).impact_ftes.v + SumImpact(Tail(its))

ItemsOfKey(its, key) == SelectSeq(its, LAMBDA it : it.function_key = key)

KeysOf(its) == {its[i].function_key : i \in 1..Len(its)}

FirstAppearance(its, key) ==
    CHOOSE i \in 1..Len(its) :
        /\ its[i].function_key = key
        /\ \A j \in 1..(i - 1) : its[j].function_key # key

Rendered == rollup.t = "rendered"

\* C1: for every item list, the empty one included, the grand total is the
\* sum of the items' impact_ftes; the empty list gives no groups and 0.
C1_GrandTotalIsSum ==
    Rendered =>
        /\ rollup.totalFtes = Num(SumImpact(items))
        /\ (items = <<>> => rollup.groups = <<>>)

\* C2: exactly one group per distinct function_key of the input, whose
\* totalFtes is the sum and whose count is the number of the items of
\* that key.
C2_OneGroupPerKey ==
    Rendered =>
        /\ {rollup.groups[i].function_key : i \in 1..Len(rollup.groups)} = KeysOf(items)
        /\ Len(rollup.groups) = Cardinality(KeysOf(items))
        /\ \A i \in 1..Len(rollup.groups) :
              LET g == rollup.groups[i]
                  mine == ItemsOfKey(items, g.function_key)
              IN  /\ g.totalFtes = Num(SumImpact(mine))
                  /\ g.count = Num(Len(mine))

\* C7: groups are ordered by totalFtes descending, and groups of equal
\* total keep the order of first appearance of their function_key, for
\* every function_key string.
C7_DescendingStable ==
    Rendered =>
        \A i, j \in 1..Len(rollup.groups) :
            i < j =>
                LET a == rollup.groups[i]
                    b == rollup.groups[j]
                IN  /\ a.totalFtes.v >= b.totalFtes.v
                    /\ a.totalFtes.v = b.totalFtes.v =>
                          FirstAppearance(items, a.function_key)
                              < FirstAppearance(items, b.function_key)

KnownFunctions == {"professional_services", "customer_success", "customer_support"}

UnknownItems(its) == SelectSeq(its, LAMBDA it : it.function_key \notin KnownFunctions)

\* C8: an item whose function_key is not a known function is never
\* dropped: a group (shown with the default dot) carries its key and its
\* impact, and the grand total includes it.
C8_UnknownKeyKept ==
    Rendered =>
        /\ \A n \in 1..Len(items) :
              items[n].function_key \notin KnownFunctions =>
                  \E i \in 1..Len(rollup.groups) :
                      /\ rollup.groups[i].function_key = items[n].function_key
                      /\ rollup.groups[i].totalFtes.v >= items[n].impact_ftes.v
                      /\ rollup.dots[i] = "bg-gray-400"
        /\ rollup.totalFtes.v >= SumImpact(UnknownItems(items))

(***************************************************************************)
(* PriorityMatrix.                                                         *)
(***************************************************************************)
TopN == 20

MaxMatrixItems == 22

MaxPattern == 2

Min(a, b) == IF a <= b THEN a ELSE b

\* items.slice(0, end)
Slice0(arr, end) == SubSeq(arr, 1, Min(Len(arr), end))

\* A list of n distinct PriorityItems (role i is the i-th role) whose
\* impact_ftes repeat the pattern p.
PriorityList(p, n) ==
    [i \in 1..n |-> [role |-> i, impact_ftes |-> Num(p[((i - 1) % Len(p)) + 1])]]

PriorityLists ==
    {PriorityList(p, n) :
        p \in SeqsUpTo(Impacts, MaxPattern) \ {<<>>}, n \in 0..MaxMatrixItems}

\* PriorityMatrix with its slice one too long.
PriorityMatrixSliceTooLong(its) ==
    IF Len(its) = 0 THEN [t |-> "null"]
    ELSE LET shown == Slice0(its, TopN + 1)
         IN  [t |-> "table",
              rows |-> [idx \in 1..Len(shown) |->
                           [number |-> idx, item |-> shown[idx]]]]

\* The body of PriorityMatrix: null, or one table row per item of
\* items.slice(0, 20), numbered idx + 1.
PriorityMatrix(its) ==
    IF Len(its) = 0 THEN [t |-> "null"]
    ELSE LET shown == Slice0(its, TopN)
         IN  [t |-> "table",
              rows |-> [idx \in 1..Len(shown) |->
                           [number |-> idx, item |-> shown[idx]]]]

RollupIdle ==
    /\ items = <<>>
    /\ rollup = NotRendered

InitMatrix ==
    /\ OutsideIdle
    /\ matrixItems \in PriorityLists
    /\ matrix = NotRendered
    /\ objectStatics = InitialStatics
    /\ RollupIdle
    /\ RoadmapIdle

RenderPriorityMatrix ==
    /\ matrix' = PriorityMatrix(matrixItems)
    /\ UNCHANGED <<matrixItems, rollupVars, objectStatics, roadmapVars, outsideVars>>

NextMatrix == RenderPriorityMatrix

SpecMatrix == InitMatrix /\ [][NextMatrix]_vars

MatrixRows == IF matrix.t = "table" THEN matrix.rows ELSE <<>>

MatrixRendered == matrix.t \in {"table", "null"}

\* C3: the rows PriorityMatrix shows are non-increasing in impact_ftes
\* from the first to the last, for any input list.
C3_RowsNonIncreasing ==
    MatrixRendered =>
        \A i, j \in 1..Len(MatrixRows) :
            i < j => MatrixRows[i].item.impact_ftes.v >= MatrixRows[j].item.impact_ftes.v

\* C4: for n input items exactly min(20, n) rows are shown, each a
\* distinct item of the input, numbered 1..min(20, n) by position.
C4_TopNRows ==
    MatrixRendered =>
        /\ Len(MatrixRows) = Min(TopN, Len(matrixItems))
        /\ \A i \in 1..Len(MatrixRows) :
              /\ MatrixRows[i].number = i
              /\ \E j \in 1..Len(matrixItems) : MatrixRows[i].item = matrixItems[j]
        /\ \A i, k \in 1..Len(MatrixRows) :
              i # k => MatrixRows[i].item # MatrixRows[k].item

C4_Witness ==
    /\ MatrixRendered
    /\ Len(matrixItems) > TopN
    /\ Len(MatrixRows) = TopN

(***************************************************************************)
(* Roadmap documents given to PriorityRoadmap.                             *)
(***************************************************************************)
MaxDocItems == 3

\* String(year) of an item's numeric year field.
YearKey(n) ==
    CASE n = 2026 -> "2026"
      [] n = 2027 -> "2027"
      [] n = 2028 -> "2028"
      [] OTHER -> "other"

RoadmapRoleItems ==
    {[role |-> "Implementation Consultant", function |-> "Customer Success",
      function_key |-> "customer_success", lever |-> "Productivity",
      year |-> 2026, impact_ftes |-> Num(10)],
     [role |-> "Tier 1 Agent", function |-> "Support",
      function_key |-> "support", lever |-> "Offshoring",
      year |-> 2027, impact_ftes |-> Num(8)]}

AIUseCases ==
    {[id |-> "uc1", year |-> 2026, estimated_fte_impact |-> Num(4)],
     [id |-> "uc2", year |-> 2028, estimated_fte_impact |-> Num(7)]}

\* Number of items the document holds.
DocSize(doc) ==
    LET listLen(x) == IF x.t = "array" THEN Len(x.a) ELSE 0
        yearLen(yd) ==
            IF yd.t = "object"
            THEN listLen(yd.productivity) + listLen(yd.offshoring) + listLen(yd.ai)
            ELSE 0
    IN  listLen(doc.ai_use_cases)
            + yearLen(doc.years["2026"]) + yearLen(doc.years["2027"]) + yearLen(doc.years["2028"])

Preparing == view.t = "not rendered" /\ DocSize(roadmap) < MaxDocItems

HasList(y, l) == roadmap.years[y].t = "object" /\ roadmap.years[y][l].t = "array"

\* The data preparation upstream puts a role item into years[y][l] of the
\* document that will be loaded.
PrepareRoleItem(roles) ==
    /\ Preparing
    /\ \E y \in Years, l \in RoleLists, it \in roles :
          /\ HasList(y, l)
          /\ roadmap' = [roadmap EXCEPT !.years[y][l].a = Append(@, it)]
    /\ UNCHANGED <<expandedUseCase, view, objectStatics, rollupVars, matrixVars, outsideVars>>

\* ... an AI use case into years[y].ai.
PrepareYearUseCase(ucs) ==
    /\ Preparing
    /\ \E y \in Years, uc \in ucs :
          /\ HasList(y, "ai")
          /\ roadmap' = [roadmap EXCEPT !.years[y].ai.a = Append(@, uc)]
    /\ UNCHANGED <<expandedUseCase, view, objectStatics, rollupVars, matrixVars, outsideVars>>

\* ... an AI use case into the flat ai_use_cases list.
PrepareUseCase(ucs) ==
    /\ Preparing
    /\ \E uc \in ucs :
          roadmap' = [roadmap EXCEPT !.ai_use_cases.a = Append(@, uc)]
    /\ UNCHANGED <<expandedUseCase, view, objectStatics, rollupVars, matrixVars, outsideVars>>

(***************************************************************************)
(* PriorityRoadmap, its FunctionRollup children and RoadmapSummary.        *)
(***************************************************************************)
IsMissing(x) == x.t = "undefined"

\* yearData.ai.length, yearData.productivity.length and
\* yearData.offshoring.length raise a TypeError on a missing yearData or list.
ColumnThrows(yearData) ==
    \/ IsMissing(yearData)
    \/ IsMissing(yearData.ai)
    \/ IsMissing(yearData.productivity)
    \/ IsMissing(yearData.offshoring)

\* yearData.<list>.length > 0 && <FunctionRollup items lever colorClass />
RollupElement(list, lever, colorClass) ==
    IF Len(list.a) > 0
    THEN [t |-> "FunctionRollup", items |-> list.a, lever |-> lever, colorClass |-> colorClass]
    ELSE [t |-> "none"]

\* YearColumn handing the productivity list to both rollups.
YearColumnSameList(year, yearData, expanded) ==
    [year |-> year,
     ai |-> [i \in 1..Len(yearData.ai.a) |->
                [useCase |-> yearData.ai.a[i],
                 isExpanded |-> (expanded = yearData.ai.a[i].id)]],
     productivity |-> RollupElement(yearData.productivity, "Productivity", "teal"),
     offshoring |-> RollupElement(yearData.productivity, "Offshoring", "orange"),
     emptyState |->
         /\ Len(yearData.productivity.a) = 0
         /\ Len(yearData.offshoring.a) = 0
         /\ Len(yearData.ai.a) = 0]

\* YearColumn whose empty state forgets the AI use cases.
YearColumnEmptyIgnoresAi(year, yearData, expanded) ==
    [year |-> year,
     ai |-> [i \in 1..Len(yearData.ai.a) |->
                [useCase |-> yearData.ai.a[i],
                 isExpanded |-> (expanded = yearData.ai.a[i].id)]],
     productivity |-> RollupElement(yearData.productivity, "Productivity", "teal"),
     offshoring |-> RollupElement(yearData.offshoring, "Offshoring", "orange"),
     emptyState |->
         /\ Len(yearData.productivity.a) = 0
         /\ Len(yearData.offshoring.a) = 0]

\* One timeline column: the callback of years.map.
YearColumn(year, yearData, expanded) ==
    [year |-> year,
     ai |-> [i \in 1..Len(yearData.ai.a) |->
                [useCase |-> yearData.ai.a[i],
                 isExpanded |-> (expanded = yearData.ai.a[i].id)]],
     productivity |-> RollupElement(yearData.productivity, "Productivity", "teal"),
     offshoring |-> RollupElement(yearData.offshoring, "Offshoring", "orange"),
     emptyState |->
         /\ Len(yearData.productivity.a) = 0
         /\ Len(yearData.offshoring.a) = 0
         /\ Len(yearData.ai.a) = 0]

\* The body of PriorityRoadmap: the element tree it returns, or a throw.
PriorityRoadmap(doc, expanded) ==
    IF \E y \in Years : ColumnThrows(doc.years[y])
    THEN [t |-> "threw"]
    ELSE [t |-> "section",
          columns |-> [y \in Years |-> YearColumn(y, doc.years[y], expanded)]]

\* list.reduce((s, i) => s + i[field], 0)
RECURSIVE ReduceField(_, _, _)
ReduceField(s, list, field) ==
    IF list = <<>> THEN s
    ELSE ReduceField(JsAdd(s, Head(list)[field]), Tail(list), field)

RECURSIVE ConcatYears(_, _, _)
ConcatYears(doc, list, n) ==
    IF n > Len(YearOrder) THEN <<>>
    ELSE doc.years[YearOrder[n]][list].a \o ConcatYears(doc, list, n + 1)

\* RoadmapSummary adding up the productivity and offshoring items of every year.
RoadmapSummaryAllYears(doc) ==
    [totalAiFtes |-> ReduceField(Num(0), doc.ai_use_cases.a, "estimated_fte_impact"),
     totalProdFtes |-> ReduceField(Num(0), ConcatYears(doc, "productivity", 1), "impact_ftes"),
     totalOffFtes |-> ReduceField(Num(0), ConcatYears(doc, "offshoring", 1), "impact_ftes")]

\* RoadmapSummary adding onto the totals of the previous render.
RoadmapSummaryKeepsTotals(doc) ==
    LET start(field) == IF view.t = "rendered" THEN view.summary[field] ELSE Num(0)
    IN  [totalAiFtes |->
             ReduceField(start("totalAiFtes"), doc.ai_use_cases.a, "estimated_fte_impact"),
         totalProdFtes |->
             ReduceField(start("totalProdFtes"), doc.years["2026"].productivity.a, "impact_ftes"),
         totalOffFtes |->
             ReduceField(start("totalOffFtes"), doc.years["2026"].offshoring.a, "impact_ftes")]

\* The body of RoadmapSummary.
RoadmapSummary(doc) ==
    [totalAiFtes |-> ReduceField(Num(0), doc.ai_use_cases.a, "estimated_fte_impact"),
     totalProdFtes |-> ReduceField(Num(0), doc.years["2026"].productivity.a, "impact_ftes"),
     totalOffFtes |-> ReduceField(Num(0), doc.years["2026"].offshoring.a, "impact_ftes")]

\* The comparator orders the groups consistently unless a NaN total meets
\* two different numeric totals; the order is then implementation-defined.
ConsistentComparator(groups) ==
    \/ \A i \in 1..Len(groups) : IsNumber(groups[i].totalFtes)
    \/ \A i, j \in 1..Len(groups) :
          IsNumber(groups[i].totalFtes) /\ IsNumber(groups[j].totalFtes)
              => groups[i].totalFtes = groups[j].totalFtes

SortOutcomes(groups) ==
    IF ConsistentComparator(groups) THEN {groups}
    ELSE {[i \in 1..Len(groups) |-> groups[p[i]]] :
             p \in {q \in [1..Len(groups) -> 1..Len(groups)] :
                       \A i, j \in 1..Len(groups) : i # j => q[i] # q[j]}}

\* What a FunctionRollup child can render for its element (the groups and
\* the total never read the inherited objects, they are only written).
RollupViews(element) ==
    IF element.t = "none" THEN {[t |-> "none"]}
    ELSE LET out == FunctionRollup(element.items, InitialStatics)
         IN  {[t |-> "rendered", lever |-> element.lever,
               groups |-> g, totalFtes |-> out.totalFtes] :
                  g \in SortOutcomes(out.groups)}

\* objectStatics after the FunctionRollup children ran, in tree order.
RECURSIVE StaticsAfter(_, _, _)
StaticsAfter(statics, columns, n) ==
    IF n > Len(YearOrder) THEN statics
    ELSE LET col == columns[YearOrder[n]]
             afterProd ==
                 IF col.productivity.t = "none" THEN statics
                 ELSE FunctionRollup(col.productivity.items, statics).statics
             afterOff ==
                 IF col.offshoring.t = "none" THEN afterProd
                 ELSE FunctionRollup(col.offshoring.items, afterProd).statics
         IN  StaticsAfter(afterOff, columns, n + 1)

\* A render pass of PriorityRoadmap with its children.  An exception in
\* the body leaves nothing on screen (no error boundary).
RenderPass(expanded) ==
    LET tree == PriorityRoadmap(roadmap, expanded)
    IN  IF tree.t = "threw"
        THEN /\ view' = [t |-> "threw"]
             /\ UNCHANGED objectStatics
        ELSE /\ \E prod \in [Years -> UNION {RollupViews(tree.columns[y].productivity) : y \in Years}],
                   off \in [Years -> UNION {RollupViews(tree.columns[y].offshoring) : y \in Years}] :
                   /\ \A y \in Years :
                         /\ prod[y] \in RollupViews(tree.columns[y].productivity)
                         /\ off[y] \in RollupViews(tree.columns[y].offshoring)
                   /\ view' = [t |-> "rendered",
                               columns |-> tree.columns,
                               rollups |-> [y \in Years |->
                                               [productivity |-> prod[y], offshoring |-> off[y]]],
                               summary |-> RoadmapSummary(roadmap)]
             /\ objectStatics' = StaticsAfter(objectStatics, tree.columns, 1)

\* First render after the document loaded.
MountPriorityRoadmap ==
    /\ view.t = "not rendered"
    /\ RenderPass(expandedUseCase)
    /\ UNCHANGED <<roadmap, expandedUseCase, rollupVars, matrixVars, outsideVars>>

\* Click on an AI use case card: handleToggle(id) and the re-render.
handleToggle(id) ==
    /\ view.t = "rendered"
    /\ \E y \in Years : \E i \in 1..Len(view.columns[y].ai) :
          view.columns[y].ai[i].useCase.id = id
    /\ expandedUseCase' = (IF expandedUseCase = id THEN "null" ELSE id)
    /\ RenderPass(expandedUseCase')
    /\ UNCHANGED <<roadmap, rollupVars, matrixVars, outsideVars>>

InitRoadmap ==
    /\ RoadmapIdle
    /\ OutsideIdle
    /\ objectStatics = InitialStatics
    /\ RollupIdle
    /\ MatrixIdle

NextRoadmap ==
    \/ PrepareRoleItem(RoadmapRoleItems)
    \/ PrepareYearUseCase(AIUseCases)
    \/ PrepareUseCase(AIUseCases)
    \/ MountPriorityRoadmap
    \/ \E uc \in AIUseCases : handleToggle(uc.id)

SpecRoadmap == InitRoadmap /\ [][NextRoadmap]_vars

(***************************************************************************)
(* Properties of PriorityRoadmap and RoadmapSummary on documents of the    *)
(* declared shape.                                                         *)
(***************************************************************************)
ViewRendered == view.t = "rendered"

Mounted == view.t # "not rendered"

\* The items shown in column y under a role lever.
ShownItems(y, list) ==
    LET element == view.columns[y][list]
    IN  IF element.t = "FunctionRollup" THEN element.items ELSE <<>>

ShownUseCases(y) ==
    [i \in 1..Len(view.columns[y].ai) |-> view.columns[y].ai[i].useCase]

LeverList(lever) ==
    CASE lever = "Productivity" -> "productivity"
      [] lever = "Offshoring" -> "offshoring"
      [] OTHER -> "other"

RECURSIVE SumEstimated(_)
SumEstimated(ucs) ==
    IF ucs = <<>> THEN 0
    ELSE Head(ucs).estimated_fte_impact.v + SumEstimated(Tail(ucs))

\* C6: the productivity and offshoring totals are the sums over the 2026
\* lists only; the AI total is the sum over all of ai_use_cases, whatever
\* the use case's year.
C6_SummaryTotals ==
    ViewRendered =>
        /\ view.summary.totalProdFtes = Num(SumImpact(roadmap.years["2026"].productivity.a))
        /\ view.summary.totalOffFtes = Num(SumImpact(roadmap.years["2026"].offshoring.a))
        /\ view.summary.totalAiFtes = Num(SumEstimated(roadmap.ai_use_cases.a))

C6_Witness ==
    /\ ViewRendered
    /\ Len(roadmap.years["2026"].productivity.a) > 0
    /\ Len(roadmap.years["2027"].productivity.a) > 0
    /\ \E i \in 1..Len(roadmap.ai_use_cases.a) : roadmap.ai_use_cases.a[i].year # 2026
    /\ view.summary.totalProdFtes.v > 0
    /\ view.summary.totalAiFtes.v > 0

YearIsEmpty(y) ==
    /\ roadmap.years[y].productivity.a = <<>>
    /\ roadmap.years[y].offshoring.a = <<>>
    /\ roadmap.years[y].ai.a = <<>>

\* C10: each of the three years is rendered as its own column, and the
\* empty state is shown in a column exactly when the year's three lists
\* are all empty.
C10_EmptyYearShown ==
    Mounted =>
        /\ ViewRendered
        /\ DOMAIN view.columns = {"2026", "2027", "2028"}
        /\ \A y \in DOMAIN view.columns :
              /\ view.columns[y].year = y
              /\ view.columns[y].emptyState <=> YearIsEmpty(y)

C10_Witness ==
    /\ ViewRendered
    /\ \E y \in Years : YearIsEmpty(y) /\ view.columns[y].emptyState
    /\ \E y \in Years :
          /\ roadmap.years[y].ai.a # <<>>
          /\ roadmap.years[y].productivity.a = <<>>
          /\ roadmap.years[y].offshoring.a = <<>>
          /\ ~view.columns[y].emptyState

(***************************************************************************)
(* Documents with a missing year entry, a missing list or an item without  *)
(* its impact number.                                                      *)
(***************************************************************************)
ItemWithoutImpact ==
    [role |-> "Project Manager", function |-> "Professional Services",
     function_key |-> "professional_services", lever |-> "Productivity",
     year |-> 2026, impact_ftes |-> Undefined]

UseCaseWithoutImpact == [id |-> "uc3", year |-> 2027, estimated_fte_impact |-> Undefined]

LacksImpact(doc) ==
    \/ \E i \in 1..Len(doc.ai_use_cases.a) : doc.ai_use_cases.a[i] = UseCaseWithoutImpact
    \/ \E y \in Years :
          /\ ~ColumnThrows(doc.years[y])
          /\ \/ \E l \in RoleLists : \E i \in 1..Len(doc.years[y][l].a) :
                    doc.years[y][l].a[i] = ItemWithoutImpact
             \/ \E i \in 1..Len(doc.years[y].ai.a) :
                    doc.years[y].ai.a[i] = UseCaseWithoutImpact

Malformed(doc) == LacksImpact(doc) \/ \E y \in Years : ColumnThrows(doc.years[y])

NothingOmitted == \A y \in Years : ~ColumnThrows(roadmap.years[y])

\* The prepared document comes without the entry of year y.
OmitYear ==
    /\ view.t = "not rendered"
    /\ NothingOmitted
    /\ \E y \in Years :
          /\ roadmap.years[y] = EmptyYear
          /\ roadmap' = [roadmap EXCEPT !.years[y] = Undefined]
    /\ UNCHANGED <<expandedUseCase, view, objectStatics, rollupVars, matrixVars, outsideVars>>

\* The prepared document comes without one list of year y.
OmitList ==
    /\ view.t = "not rendered"
    /\ NothingOmitted
    /\ \E y \in Years, l \in RoleLists \cup {"ai"} :
          /\ HasList(y, l)
          /\ roadmap.years[y][l].a = <<>>
          /\ roadmap' = [roadmap EXCEPT !.years[y][l] = Undefined]
    /\ UNCHANGED <<expandedUseCase, view, objectStatics, rollupVars, matrixVars, outsideVars>>

NextMalformed ==
    \/ PrepareRoleItem(RoadmapRoleItems \cup {ItemWithoutImpact})
    \/ PrepareYearUseCase(AIUseCases \cup {UseCaseWithoutImpact})
    \/ PrepareUseCase(AIUseCases \cup {UseCaseWithoutImpact})
    \/ OmitYear
    \/ OmitList
    \/ MountPriorityRoadmap
    \/ \E uc \in AIUseCases \cup {UseCaseWithoutImpact} : handleToggle(uc.id)

SpecMalformed == InitRoadmap /\ [][NextMalformed]_vars

\* C9: on a document with a missing year entry, a missing list or an item
\* without its impact number, rendering raises nothing and every total
\* shown is a number.
C9_NeverRaises ==
    Mounted /\ Malformed(roadmap) =>
        /\ ViewRendered
        /\ IsNumber(view.summary.totalProdFtes)
        /\ IsNumber(view.summary.totalOffFtes)
        /\ IsNumber(view.summary.totalAiFtes)
        /\ \A y \in Years : \A l \in RoleLists :
              view.rollups[y][l].t = "rendered" =>
                  /\ IsNumber(view.rollups[y][l].totalFtes)
                  /\ \A i \in 1..Len(view.rollups[y][l].groups) :
                        IsNumber(view.rollups[y][l].groups[i].totalFtes)

(***************************************************************************)
(* Charts and badges of the NRR templates and of the assessment UI.  Each  *)
(* is a function of its props; `props` holds them and `chart` what the     *)
(* component rendered.  A component operator returns what it renders       *)
(* together with its props as the call leaves them.                        *)
(***************************************************************************)
MaxPeers == 2

\* Array.prototype.sort with comparator cmp, run on the array rest: stable,
\* x goes behind every element that does not compare greater than it.
RECURSIVE StableSort(_, _, _)
StableSort(cmp(_, _), sorted, rest) ==
    IF rest = <<>> THEN sorted
    ELSE LET x == Head(rest)
             before == {i \in 1..Len(sorted) : cmp(sorted[i], x) <= 0}
             k == IF before = {} THEN 0
                  ELSE CHOOSE i \in before : \A j \in before : j <= i
         IN  StableSort(cmp,
                        SubSeq(sorted, 1, k) \o <<x>> \o SubSeq(sorted, k + 1, Len(sorted)),
                        Tail(rest))

\* quartileColor with > where the code has >=.
quartileColorStrict(nrr, q1, q4, median) ==
    IF nrr > q1 THEN "#10b981"
    ELSE IF nrr > median THEN "#3b82f6"
    ELSE IF nrr > q4 THEN "#f59e0b"
    ELSE "#ef4444"

quartileColor(nrr, q1, q4, median) ==
    IF nrr >= q1 THEN "#10b981"
    ELSE IF nrr >= median THEN "#3b82f6"
    ELSE IF nrr >= q4 THEN "#f59e0b"
    ELSE "#ef4444"

\* (a, b) => b.nrr - a.nrr
ComparePeers(a, b) == b.nrr - a.nrr

\* NRRBenchmark sorting nrr.peerData itself, without the [...] copy.
NRRBenchmarkSortInPlace(nrr) ==
    LET sortedPeers == StableSort(ComparePeers, <<>>, nrr.peerData)
    IN  [t |-> "NRRBenchmark",
         chartData |->
             [i \in 1..Len(sortedPeers) |->
                 [name |-> sortedPeers[i].company,
                  nrr |-> sortedPeers[i].nrr,
                  isTarget |-> sortedPeers[i].isTarget,
                  fill |-> IF sortedPeers[i].isTarget THEN "#6366f1"
                           ELSE quartileColor(sortedPeers[i].nrr, nrr.peers.topQuartile,
                                              nrr.peers.bottomQuartile, nrr.peers.median)]],
         props |-> [nrr EXCEPT !.peerData = sortedPeers]]

\* The body of NRRBenchmark: the bars of the peer chart.
NRRBenchmark(nrr) ==
    LET sortedPeers == StableSort(ComparePeers, <<>>, nrr.peerData)
    IN  [t |-> "NRRBenchmark",
         chartData |->
             [i \in 1..Len(sortedPeers) |->
                 [name |-> sortedPeers[i].company,
                  nrr |-> sortedPeers[i].nrr,
                  isTarget |-> sortedPeers[i].isTarget,
                  fill |-> IF sortedPeers[i].isTarget THEN "#6366f1"
                           ELSE quartileColor(sortedPeers[i].nrr, nrr.peers.topQuartile,
                                              nrr.peers.bottomQuartile, nrr.peers.median)]],
         props |-> nrr]

NrrValues == {94, 95, 110, 118, 120}

Thresholds == {95, 110, 120}

PeerDataPoints ==
    {[company |-> c, nrr |-> n, isTarget |-> (c = "Target Co")] :
        c \in {"Target Co", "Peer"}, n \in NrrValues}

NRRData ==
    {[t |-> "NRRBenchmark", peerData |-> pd,
      peers |-> [topQuartile |-> q1, median |-> m, bottomQuartile |-> q4]] :
        pd \in SeqsUpTo(PeerDataPoints, MaxPeers),
        q1 \in Thresholds, m \in Thresholds, q4 \in Thresholds}

\* The stat cards "TOP QUARTILE (Q1)  >= x%" and "BOTTOM QUARTILE (Q4)  <= y%".
StatCards(nrr) ==
    [Q1 |-> [label |-> "TOP QUARTILE (Q1)", relation |-> ">=", value |-> nrr.peers.topQuartile],
     Q4 |-> [label |-> "BOTTOM QUARTILE (Q4)", relation |-> "<=",
             value |-> nrr.peers.bottomQuartile]]

RenderNRRBenchmark ==
    /\ props.t = "NRRBenchmark"
    /\ LET out == NRRBenchmark(props)
       IN  /\ chart' = [t |-> out.t, chartData |-> out.chartData,
                        statCards |-> StatCards(props)]
           /\ props' = out.props
    /\ UNCHANGED <<rollupVars, objectStatics, matrixVars, roadmapVars, portalVars, deployVars>>

(***************************************************************************)
(* Lookups in object literals.  map[key] reads an own property, else the   *)
(* property of that name which every object literal inherits, else         *)
(* undefined; x ?? d replaces only undefined (and null).                   *)
(***************************************************************************)
Str(s) == [t |-> "string", v |-> s]

Lookup(map, key) ==
    IF key \in DOMAIN map THEN map[key]
    ELSE IF key \in InheritedNames THEN [t |-> "inherited", name |-> key]
    ELSE Undefined

Coalesce(x, d) == IF x.t = "undefined" THEN d ELSE x

MaxDims == 2

MATURITY_VALUE ==
    ("Basic" :> Num(1)) @@ ("Advanced" :> Num(2)) @@ ("Next-gen" :> Num(3))

\* The body of MaturityAssessment: the points of the radar chart.
MaturityAssessment(maturity) ==
    [t |-> "MaturityAssessment",
     radarData |->
         [i \in 1..Len(maturity) |->
             [current |-> Coalesce(Lookup(MATURITY_VALUE, maturity[i].current), Num(1)),
              target |-> Coalesce(Lookup(MATURITY_VALUE, maturity[i].target), Num(3)),
              currentLabel |-> maturity[i].current,
              targetLabel |-> maturity[i].target]]]

\* current and target are strings; "Expert" is no maturity level.
MaturityLevels == {"Basic", "Advanced", "Next-gen", "Expert", "constructor"}

MaturityDimensions == {[current |-> c, target |-> g] : c \in MaturityLevels, g \in MaturityLevels}

RenderMaturityAssessment ==
    /\ props.t = "MaturityAssessment"
    /\ chart' = MaturityAssessment(props.maturity)
    /\ UNCHANGED <<props, rollupVars, objectStatics, matrixVars, roadmapVars, portalVars, deployVars>>

\* const colors of OffshoreRatingBadge
OffshoreBadgeColors ==
    ("High" :> Str("bg-emerald-100 text-emerald-800"))
    @@ ("Medium-High" :> Str("bg-lime-100 text-lime-800"))
    @@ ("Medium" :> Str("bg-amber-100 text-amber-800"))
    @@ ("Low" :> Str("bg-orange-100 text-orange-800"))
    @@ ("Not Recommended" :> Str("bg-red-100 text-red-800"))

\* The colour classes OffshoreRatingBadge puts into its className.
OffshoreRatingBadge(rating) ==
    Coalesce(Lookup(OffshoreBadgeColors, rating), Str("bg-gray-100 text-gray-600"))

offshoreColor(rating) ==
    IF rating = "High" THEN Str("bg-emerald-50 border-emerald-200 text-emerald-800")
    ELSE IF rating = "Medium-High" THEN Str("bg-lime-50 border-lime-200 text-lime-800")
    ELSE IF rating = "Medium" THEN Str("bg-amber-50 border-amber-200 text-amber-800")
    ELSE IF rating = "Low" THEN Str("bg-orange-50 border-orange-200 text-orange-800")
    ELSE IF rating = "Not Recommended" THEN Str("bg-red-50 border-red-200 text-red-800")
    ELSE Str("bg-gray-50 border-gray-200 text-gray-700")

CONTEXT_BADGES ==
    ("unique" :> Str("bg-indigo-100 text-indigo-800 border border-indigo-200"))
    @@ ("competitors-better" :> Str("bg-amber-100 text-amber-800 border border-amber-200"))
    @@ ("industry-wide" :> Str("bg-slate-100 text-slate-700 border border-slate-200"))

CONTEXT_STYLES ==
    ("unique" :> Str("bg-indigo-50 text-indigo-700 border border-indigo-200"))
    @@ ("competitors-better" :> Str("bg-amber-50 text-amber-700 border border-amber-200"))
    @@ ("industry-wide" :> Str("bg-slate-100 text-slate-600 border border-slate-200"))

\* contextStyle of the basic journey map (its map holds the CONTEXT_STYLES).
contextStyle(type) ==
    Coalesce(Lookup(CONTEXT_STYLES, type), CONTEXT_STYLES["industry-wide"])

\* The style of a competitive-context badge in the three journey maps.
ContextBadge(variant, type) ==
    CASE variant = "basic" -> contextStyle(type)
      [] variant = "enhanced" ->
            Coalesce(Lookup(CONTEXT_BADGES, type), CONTEXT_BADGES["industry-wide"])
      [] variant = "assessment" ->
            Coalesce(Lookup(CONTEXT_STYLES, type), CONTEXT_STYLES["industry-wide"])

\* rating is a string; "Very High" is no rating of the scale.
Ratings ==
    {"High", "Medium-High", "Medium", "Low", "Not Recommended", "Very High", "constructor"}

ContextTypes == {"unique", "competitors-better", "industry-wide", "regional", "constructor"}

JourneyMapVariants == {"basic", "enhanced", "assessment"}

\* The offshoring box of RoleDetail: offshoreColor around an OffshoreRatingBadge.
RenderOffshoring ==
    /\ props.t = "RoleDetail"
    /\ chart' = [t |-> "RoleDetail",
                 box |-> offshoreColor(props.rating),
                 badge |-> OffshoreRatingBadge(props.rating)]
    /\ UNCHANGED <<props, rollupVars, objectStatics, matrixVars, roadmapVars, portalVars, deployVars>>

\* A competitive-context badge of a journey stage.
RenderJourneyMap ==
    /\ props.t = "JourneyMap"
    /\ chart' = [t |-> "JourneyMap", badge |-> ContextBadge(props.variant, props.type)]
    /\ UNCHANGED <<props, rollupVars, objectStatics, matrixVars, roadmapVars, portalVars, deployVars>>

Null == [t |-> "null"]

\* x ?? 0 on number | null
OrZero(x) == IF IsNumber(x) THEN x.v ELSE 0

\* (a, b) => (b.rev_per_emp ?? 0) - (a.rev_per_emp ?? 0)
CompareRevenue(a, b) == OrZero(b.rev_per_emp) - OrZero(a.rev_per_emp)

\* Math.max(...numbers) of a non-empty list.
RECURSIVE MathMax(_)
MathMax(numbers) ==
    IF Len(numbers) = 1 THEN numbers[1]
    ELSE LET rest == MathMax(Tail(numbers))
         IN  IF Head(numbers) >= rest THEN Head(numbers) ELSE rest

\* a / b on numbers: 0 / 0 is NaN, a / 0 is an infinity, else the quotient.
Divide(a, b) ==
    IF b # 0 THEN [t |-> "quotient", num |-> a, den |-> b]
    ELSE IF a = 0 THEN NaN
    ELSE [t |-> "infinity"]

\* The body of PeerComparison: the bars and their widths
\* (rev_per_emp ?? 0) / (maxVal * 1.1) * 100, or null for fewer than two.
PeerComparison(company, peers) ==
    LET withRevenue == SelectSeq(peers, LAMBDA q : q.revenue_per_employee.t # "null")
        mapped == [i \in 1..Len(withRevenue) |->
                      [name |-> withRevenue[i].name,
                       rev_per_emp |-> withRevenue[i].revenue_per_employee,
                       isTarget |-> FALSE]]
        literal == <<[name |-> company.name,
                      rev_per_emp |-> company.revenue_per_employee,
                      isTarget |-> TRUE]>> \o mapped
        all == StableSort(CompareRevenue, <<>>,
                          SelectSeq(literal, LAMBDA q : q.rev_per_emp.t # "null"))
        maxVal == MathMax([i \in 1..Len(all) |-> OrZero(all[i].rev_per_emp)])
    IN  [t |-> "PeerComparison",
         bars |-> IF Len(all) < 2 THEN Null ELSE Arr(all),
         widths |-> IF Len(all) < 2 THEN Null
                    ELSE Arr([i \in 1..Len(all) |->
                                 Divide(OrZero(all[i].rev_per_emp) * 1000, maxVal * 11)]),
         peers |-> peers]

Revenues == {Null, Num(0), Num(200), Num(300)}

PeerFinancials == {[name |-> n, revenue_per_employee |-> r] : n \in {"Peer A", "Peer B"}, r \in Revenues}

RenderPeerComparison ==
    /\ props.t = "PeerComparison"
    /\ LET out == PeerComparison(props.company, props.peers)
       IN  /\ chart' = [t |-> out.t, bars |-> out.bars, widths |-> out.widths]
           /\ props' = [props EXCEPT !.peers = out.peers]
    /\ UNCHANGED <<rollupVars, objectStatics, matrixVars, roadmapVars, portalVars, deployVars>>

\* combinedPct of ExecutiveSummary: Math.round(combinedFtes / total * 100), or null.
combinedPct(summary) ==
    LET combinedFtes == summary.total_ai_addressable_ftes + summary.total_offshore_gap_ftes
                        + summary.total_productivity_ftes
        total == summary.total_customer_ops_ftes
    IN  IF total > 0 THEN Num((200 * combinedFtes + total) \div (2 * total)) ELSE Null

AssessmentSummaries ==
    [total_customer_ops_ftes : {-10, 0, 40}, total_ai_addressable_ftes : {0, 7},
     total_offshore_gap_ftes : {0, 5}, total_productivity_ftes : {0, 3}]

RenderExecutiveSummary ==
    /\ props.t = "ExecutiveSummary"
    /\ chart' = [t |-> "ExecutiveSummary", combinedPct |-> combinedPct(props.summary)]
    /\ UNCHANGED <<props, rollupVars, objectStatics, matrixVars, roadmapVars, portalVars, deployVars>>

\* The body of DollarImpactChart: the three widths of each year, or null.
DollarImpactChart(dollarImpact) ==
    LET years == <<dollarImpact["2026"], dollarImpact["2027"], dollarImpact["2028"]>>
        maxTotal == MathMax([i \in 1..3 |-> years[i].total])
    IN  IF maxTotal = 0 THEN Null
        ELSE Arr([i \in 1..3 |->
                     [prodWidth |-> Divide(years[i].productivity * 100, maxTotal),
                      aiWidth |-> Divide(years[i].ai * 100, maxTotal),
                      offWidth |-> Divide(years[i].offshoring * 100, maxTotal)]])

DollarImpactYears ==
    [productivity : {0, 100}, ai : {50}, offshoring : {25}, total : {-175, 0, 175}]

DollarImpacts == [{"2026", "2027", "2028"} -> DollarImpactYears]

RenderDollarImpactChart ==
    /\ props.t = "DollarImpactChart"
    /\ chart' = [t |-> "DollarImpactChart", bars |-> DollarImpactChart(props.dollarImpact)]
    /\ UNCHANGED <<props, rollupVars, objectStatics, matrixVars, roadmapVars, portalVars, deployVars>>

\* The width of BarCompare: max > 0 ? (value / max) * 100 : 0
BarCompare(value, max) == IF max > 0 THEN Divide(value * 100, max) ELSE Num(0)

RenderBarCompare ==
    /\ props.t = "BarCompare"
    /\ chart' = [t |-> "BarCompare", width |-> BarCompare(props.value, props.max)]
    /\ UNCHANGED <<props, rollupVars, objectStatics, matrixVars, roadmapVars, portalVars, deployVars>>

MaxDiagnostics == 2

\* (a, b) => new Date(b.created).getTime() - new Date(a.created).getTime(),
\* created counted in days.
CompareCreated(a, b) == b.created - a.created

\* What DiagnosticsTable renders from its state: the rows, newest first,
\* of the active tab, and the diagnostics array as the render leaves it.
DiagnosticsRows(diagnostics, activeTab) ==
    LET sorted == StableSort(CompareCreated, <<>>, diagnostics)
    IN  [t |-> "DiagnosticsTable",
         filtered |-> IF activeTab = "all" THEN sorted
                      ELSE SelectSeq(sorted, LAMBDA d : d.product = activeTab),
         diagnostics |-> diagnostics]

Products == {"basic", "enhanced", "agentic"}

Diagnostics ==
    {[client |-> "oracle", product |-> pr, created |-> day] :
        pr \in {"basic", "enhanced"}, day \in {40, 42}}

RenderDiagnosticsRows ==
    /\ props.t = "DiagnosticsTable"
    /\ LET out == DiagnosticsRows(props.diagnostics, props.activeTab)
       IN  /\ chart' = [t |-> out.t, filtered |-> out.filtered]
           /\ props' = [props EXCEPT !.diagnostics = out.diagnostics]
    /\ UNCHANGED <<rollupVars, objectStatics, matrixVars, roadmapVars, portalVars, deployVars>>

MaxChartItems == 2

\* A FunctionRollup among the charts: it reads props.items and writes
\* what RollupStep writes.
RenderRollupChart ==
    /\ props.t = "FunctionRollup"
    /\ LET out == FunctionRollup(props.items, objectStatics)
       IN  /\ chart' = [t |-> "FunctionRollup", groups |-> out.groups,
                        totalFtes |-> out.totalFtes]
           /\ objectStatics' = out.statics
    /\ UNCHANGED <<props, rollupVars, matrixVars, roadmapVars, portalVars, deployVars>>

\* interface RoadmapRoleItem: the fields FunctionRollup reads, and lever and year.
RoadmapItems ==
    {[function_key |-> k, function |-> FunctionName(k), impact_ftes |-> Num(n),
      lever |-> l, year |-> y] :
        k \in {"support", "10", "constructor"}, n \in {5, 8},
        l \in {"Productivity", "Offshoring"}, y \in {2026, 2027}}

(***************************************************************************)
(* stageHealthColor of the journey maps.  A score is a number until the    *)
(* weight looked up is an inherited function: number + function is a       *)
(* string, and so is everything added after it.  A string is the sequence  *)
(* of its pieces: a digit 0..9, or FunctionText for the text of a function.*)
(***************************************************************************)
MaxFindings == 2

SEVERITY_WEIGHT == ("high" :> Num(3)) @@ ("medium" :> Num(2)) @@ ("low" :> Num(1))

FunctionText == 100

RECURSIVE Digits(_)
Digits(n) == IF n < 10 THEN <<n>> ELSE Append(Digits(n \div 10), n % 10)

\* String(x) for a number, a string or an inherited function.
ToText(x) ==
    IF x.t = "number" THEN Digits(x.v)
    ELSE IF x.t = "string" THEN x.v
    ELSE <<FunctionText>>

\* sum + weight
Plus(sum, weight) ==
    IF sum.t = "number" /\ weight.t = "number" THEN Num(sum.v + weight.v)
    ELSE Str(ToText(sum) \o ToText(weight))

\* a < b for two strings, piece by piece.
RECURSIVE TextLess(_, _)
TextLess(a, b) ==
    IF b = <<>> THEN FALSE
    ELSE IF a = <<>> THEN TRUE
    ELSE IF Head(a) # Head(b) THEN Head(a) < Head(b)
    ELSE TextLess(Tail(a), Tail(b))

\* a > b: two strings compare as texts, two numbers as numbers, and a
\* string beside a number is converted to NaN, which is greater than nothing.
GreaterThan(a, b) ==
    IF a.t = "number" /\ b.t = "number" THEN a.v > b.v
    ELSE IF a.t = "string" /\ b.t = "string" THEN TextLess(b.v, a.v)
    ELSE FALSE

\* findings.reduce((sum, f) => sum + (SEVERITY_WEIGHT[f.severity] ?? 2), 0)
RECURSIVE SeverityScore(_, _)
SeverityScore(sum, findings) ==
    IF findings = <<>> THEN sum
    ELSE SeverityScore(Plus(sum, Coalesce(Lookup(SEVERITY_WEIGHT, Head(findings).severity),
                                          Num(2))),
                       Tail(findings))

\* stageHealthColor of the enhanced JourneyMap (border) and of the
\* assessment FunctionPanel (ring).
stageHealthColor(variant, stage) ==
    LET strengthScore == SeverityScore(Num(0), stage.strengths)
        painScore == SeverityScore(Num(0), stage.painPoints)
        edge(colour) == IF variant = "enhanced" THEN "border-" \o colour ELSE "ring-" \o colour
    IN  IF Len(stage.strengths) = 0 /\ Len(stage.painPoints) = 0
        THEN [bg |-> "bg-slate-100",
              text |-> IF variant = "enhanced" THEN "text-slate-500" ELSE "text-slate-600",
              edge |-> edge("slate-300")]
        ELSE IF GreaterThan(painScore, strengthScore)
        THEN [bg |-> "bg-red-100", text |-> "text-red-700", edge |-> edge("red-300")]
        ELSE IF GreaterThan(strengthScore, painScore)
        THEN [bg |-> "bg-emerald-100", text |-> "text-emerald-700",
              edge |-> edge("emerald-300")]
        ELSE [bg |-> "bg-amber-100", text |-> "text-amber-700", edge |-> edge("amber-300")]

StageVariants == {"enhanced", "assessment"}

Severities == {"high", "medium", "low", "critical", "constructor"}

Findings == {[severity |-> sv] : sv \in Severities}

JourneyStages ==
    {[strengths |-> st, painPoints |-> pp] :
        st \in SeqsUpTo(Findings, MaxFindings), pp \in SeqsUpTo(Findings, MaxFindings)}

\* The stage as the enhanced JourneyMap and as the assessment FunctionPanel colour it.
RenderStage ==
    /\ props.t = "JourneyStage"
    /\ chart' = [t |-> "JourneyStage",
                 health |-> [v \in StageVariants |-> stageHealthColor(v, props.stage)]]
    /\ UNCHANGED <<props, rollupVars, objectStatics, matrixVars, roadmapVars, portalVars, deployVars>>

ChartProps ==
    NRRData
    \cup {[t |-> "MaturityAssessment", maturity |-> m] : m \in SeqsUpTo(MaturityDimensions, MaxDims)}
    \cup {[t |-> "RoleDetail", rating |-> r] : r \in Ratings}
    \cup {[t |-> "JourneyMap", variant |-> v, type |-> ty] :
             v \in JourneyMapVariants, ty \in ContextTypes}
    \cup {[t |-> "PeerComparison",
           company |-> [name |-> "Target Co", revenue_per_employee |-> r], peers |-> ps] :
             r \in Revenues, ps \in SeqsUpTo(PeerFinancials, MaxPeers)}
    \cup {[t |-> "DiagnosticsTable", diagnostics |-> ds, activeTab |-> tab] :
             ds \in SeqsUpTo(Diagnostics, MaxDiagnostics), tab \in {"all"} \cup Products}
    \cup {[t |-> "FunctionRollup", items |-> its] :
             its \in SeqsUpTo(RoadmapItems, MaxChartItems)}
    \cup {[t |-> "ExecutiveSummary", summary |-> sm] : sm \in AssessmentSummaries}
    \cup {[t |-> "DollarImpactChart", dollarImpact |-> di] : di \in DollarImpacts}
    \cup {[t |-> "BarCompare", value |-> v, max |-> m] : v \in {0, 40}, m \in {-12, 0, 48, 100}}
    \cup {[t |-> "JourneyStage", stage |-> st] : st \in JourneyStages}

RoadmapPageIdle ==
    /\ RollupIdle
    /\ objectStatics = InitialStatics
    /\ MatrixIdle
    /\ RoadmapIdle

InitCharts ==
    /\ props \in ChartProps
    /\ chart = NotRendered
    /\ RoadmapPageIdle
    /\ PortalIdle
    /\ DeployIdle

NextCharts ==
    \/ RenderNRRBenchmark
    \/ RenderMaturityAssessment
    \/ RenderOffshoring
    \/ RenderJourneyMap
    \/ RenderPeerComparison
    \/ RenderDiagnosticsRows
    \/ RenderRollupChart
    \/ RenderStage
    \/ RenderExecutiveSummary
    \/ RenderDollarImpactChart
    \/ RenderBarCompare

SpecCharts == InitCharts /\ [][NextCharts]_vars

(***************************************************************************)
(* Properties of the charts and badges.                                    *)
(***************************************************************************)
\* Legend of the peer chart: Q1 emerald, Q2 blue, Q3 amber, Q4 red.
QuartileOf(fill) ==
    CASE fill = "#10b981" -> 1
      [] fill = "#3b82f6" -> 2
      [] fill = "#f59e0b" -> 3
      [] fill = "#ef4444" -> 4
      [] OTHER -> 0

OrderedThresholds ==
    /\ props.peers.topQuartile >= props.peers.median
    /\ props.peers.median >= props.peers.bottomQuartile

PeerBars == {i \in 1..Len(chart.chartData) : ~chart.chartData[i].isTarget}

\* C11: with topQuartile >= median >= bottomQuartile every peer bar gets
\* exactly one of Q1..Q4, it is Q2 exactly when median <= nrr < topQuartile,
\* and a peer with a higher NRR never gets a worse quartile than one with
\* a lower NRR.
C11_QuartileClassification ==
    (chart.t = "NRRBenchmark" /\ OrderedThresholds) =>
        /\ \A i \in PeerBars :
              /\ QuartileOf(chart.chartData[i].fill) \in 1..4
              /\ QuartileOf(chart.chartData[i].fill) = 2
                     <=> /\ props.peers.median <= chart.chartData[i].nrr
                         /\ chart.chartData[i].nrr < props.peers.topQuartile
        /\ \A i, j \in PeerBars :
              chart.chartData[i].nrr >= chart.chartData[j].nrr
                  => QuartileOf(chart.chartData[i].fill) <= QuartileOf(chart.chartData[j].fill)

C11_Witness ==
    /\ chart.t = "NRRBenchmark"
    /\ props.peers = [topQuartile |-> 120, median |-> 110, bottomQuartile |-> 95]
    /\ \E i, j \in PeerBars :
          /\ chart.chartData[i].nrr = 118
          /\ QuartileOf(chart.chartData[i].fill) = 2
          /\ chart.chartData[j].nrr = 110
          /\ QuartileOf(chart.chartData[j].fill) = 2

LevelPosition(level) ==
    CASE level = "Basic" -> 0
      [] level = "Advanced" -> 1
      [] level = "Next-gen" -> 2
      [] OTHER -> 0

\* C12: Basic, Advanced and Next-gen are drawn at the positions 0, 1 and 2,
\* and any other level string, as current or as target level, is drawn at
\* the position of Basic.
C12_LevelPositions ==
    chart.t = "MaturityAssessment" =>
        \A i \in 1..Len(chart.radarData) :
            /\ chart.radarData[i].current = Num(LevelPosition(chart.radarData[i].currentLabel))
            /\ chart.radarData[i].target = Num(LevelPosition(chart.radarData[i].targetLabel))

\* C13: the rating and competitive-context helpers return a style for
\* every string; a rating outside the scale gets the gray bucket from
\* offshoreColor and from OffshoreRatingBadge, a context type outside the
\* three known ones gets the "industry-wide" style in every journey map.
C13_DefaultBuckets ==
    /\ (chart.t = "RoleDetail" /\ props.rating \notin DOMAIN OffshoreBadgeColors) =>
           /\ chart.box = Str("bg-gray-50 border-gray-200 text-gray-700")
           /\ chart.badge = Str("bg-gray-100 text-gray-600")
    /\ (chart.t = "JourneyMap" /\ props.type \notin DOMAIN CONTEXT_STYLES) =>
           chart.badge = ContextBadge(props.variant, "industry-wide")

\* C17: no render changes an array of the document it was given: the
\* roadmap item list, the peer data, the peer financials and the loaded
\* diagnostics hold the same elements in the same order afterwards.
C17_SourceArraysKept == [][props' = props]_vars

C17_Witness ==
    /\ chart.t = "NRRBenchmark"
    /\ Len(props.peerData) = 2
    /\ props.peerData[1].nrr < props.peerData[2].nrr
    /\ chart.chartData[1].nrr = props.peerData[2].nrr
    /\ chart.chartData[2].nrr = props.peerData[1].nrr

MaxRequests == 3

\* export const fallbackDiagnostics, and a diagnostics.json served by GitHub.
fallbackDiagnostics ==
    <<[client |-> "Databricks", product |-> "enhanced", created |-> 40],
      [client |-> "UiPath", product |-> "enhanced", created |-> 42]>>

LiveDiagnostics ==
    <<[client |-> "oracle", product |-> "basic", created |-> 50]>>

AssessmentDocument == [t |-> "object", company |-> "athenahealth"]

\* How a fetch can settle: rejected, or a response with a status and a body.
Rejected == [t |-> "rejected", message |-> Str("Failed to fetch")]

Response(status, body) ==
    [t |-> "response", status |-> status, ok |-> (status \in 200..299), body |-> body]

InvalidJson == [t |-> "invalid json"]

\* A fetch failed: network error, non-success status, or a body that is no JSON.
Failed(outcome) ==
    \/ outcome.t = "rejected"
    \/ ~outcome.ok
    \/ outcome.body.t = "invalid json"

Send(request) ==
    network' = [sent |-> network.sent + 1, pending |-> network.pending \cup {request}]

Settle(request) ==
    network' = [network EXCEPT !.pending = @ \ {request}]

DiagnosticsRequest == [from |-> "DiagnosticsTable", method |-> "GET"]

AssessmentRequest == [from |-> "App", method |-> "GET"]

DiagnosticsOutcomes ==
    {Rejected, Response(404, InvalidJson), Response(500, InvalidJson),
     Response(200, InvalidJson), Response(200, Arr(LiveDiagnostics)),
     Response(200, Arr(<<>>)), Response(200, Null)}

AssessmentOutcomes ==
    {Rejected, Response(404, InvalidJson), Response(500, InvalidJson),
     Response(200, InvalidJson), Response(200, AssessmentDocument), Response(200, Null)}

\* DiagnosticsTable mounts: useState defaults, then the effect's fetch.
MountDiagnosticsTable ==
    /\ table.t = "unmounted"
    /\ table' = [t |-> "mounted", diagnostics |-> fallbackDiagnostics, isLive |-> FALSE,
                 fetch |-> "pending"]
    /\ Send(DiagnosticsRequest)

\* DiagnosticsTable fetching again when the fetch failed.
DiagnosticsSettledRetries(outcome) ==
    /\ DiagnosticsRequest \in network.pending
    /\ IF Failed(outcome)
       THEN Send(DiagnosticsRequest) /\ UNCHANGED table
       ELSE Settle(DiagnosticsRequest) /\ table' = [table EXCEPT !.fetch = "succeeded"]
    /\ UNCHANGED <<app, form, storage, repo>>
    /\ UNCHANGED <<rollupVars, objectStatics, matrixVars, roadmapVars, chartVars, deployVars>>

\* The then/then/catch chain of DiagnosticsTable on the settled fetch.
DiagnosticsSettled(outcome) ==
    /\ DiagnosticsRequest \in network.pending
    /\ Settle(DiagnosticsRequest)
    /\ IF outcome.t = "response" /\ outcome.ok /\ outcome.body.t = "array"
          /\ Len(outcome.body.a) > 0
       THEN table' = [table EXCEPT !.diagnostics = outcome.body.a, !.isLive = TRUE,
                                   !.fetch = "succeeded"]
       ELSE table' = [table EXCEPT
                         !.isLive = IF Failed(outcome) THEN FALSE ELSE @,
                         !.fetch = IF Failed(outcome) THEN "failed" ELSE "succeeded"]
    /\ UNCHANGED <<app, form, storage, repo>>
    /\ UNCHANGED <<rollupVars, objectStatics, matrixVars, roadmapVars, chartVars, deployVars>>

\* App mounts: useState defaults, then the effect's fetchAssessment().
MountApp ==
    /\ app.t = "unmounted"
    /\ table.t = "unmounted"
    /\ app' = [t |-> "mounted", assessment |-> Null, isLoading |-> TRUE, error |-> Null,
               outcome |-> [t |-> "pending"]]
    /\ Send(AssessmentRequest)
    /\ UNCHANGED <<table, form, storage, repo>>
    /\ UNCHANGED <<rollupVars, objectStatics, matrixVars, roadmapVars, chartVars, deployVars>>

\* fetchAssessment and the then/catch/finally chain of App on the settled fetch.
AssessmentSettled(outcome) ==
    /\ AssessmentRequest \in network.pending
    /\ Settle(AssessmentRequest)
    /\ app' =
          IF outcome.t = "rejected"
          THEN [app EXCEPT !.error = outcome.message, !.isLoading = FALSE, !.outcome = outcome]
          ELSE IF ~outcome.ok
          THEN [app EXCEPT !.error = Str("Failed to load assessment data"),
                           !.isLoading = FALSE, !.outcome = outcome]
          ELSE IF outcome.body.t = "invalid json"
          THEN [app EXCEPT !.error = Str("Unexpected token"),
                           !.isLoading = FALSE, !.outcome = outcome]
          ELSE [app EXCEPT !.assessment = outcome.body, !.isLoading = FALSE,
                           !.outcome = outcome]
    /\ UNCHANGED <<table, form, storage, repo>>
    /\ UNCHANGED <<rollupVars, objectStatics, matrixVars, roadmapVars, chartVars, deployVars>>

\* What App shows: the error banner, the loading state, the content.
AppShows ==
    [banner |-> app.error.t = "string" /\ app.error.v # "",
     loading |-> app.isLoading,
     content |-> IF app.assessment.t # "null" /\ ~app.isLoading THEN app.assessment ELSE Null]

(***************************************************************************)
(* FeedbackForm.  A text is the sequence of its characters, so that trim,  *)
(* toLowerCase and replace act on it as they do in the code.               *)
(***************************************************************************)
AlphaNum ==
    {"a", "b", "c", "d", "e", "f", "g", "h", "i", "j", "k", "l", "m", "n", "o", "p", "q",
     "r", "s", "t", "u", "v", "w", "x", "y", "z", "0", "1", "2", "3", "4", "5", "6", "7",
     "8", "9"}

\* toLowerCase on the characters the inputs use.
LowerCase(c) ==
    CASE c = "A" -> "a"
      [] c = "B" -> "b"
      [] c = "J" -> "j"
      [] OTHER -> c

\* String.prototype.trim
RECURSIVE Trim(_)
Trim(text) ==
    IF text = <<>> THEN text
    ELSE IF Head(text) = " " THEN Trim(Tail(text))
    ELSE IF text[Len(text)] = " " THEN Trim(SubSeq(text, 1, Len(text) - 1))
    ELSE text

\* text.toLowerCase().replace(/[^a-z0-9]+/g, "-")
RECURSIVE Slug(_)
Slug(text) ==
    IF text = <<>> THEN <<>>
    ELSE LET c == LowerCase(Head(text))
             rest == Slug(Tail(text))
         IN  IF c \in AlphaNum THEN <<c>> \o rest
             ELSE IF Len(text) > 1 /\ LowerCase(text[2]) \notin AlphaNum THEN rest
             ELSE <<"-">> \o rest

\* `${FEEDBACK_DIR}/${entry.date}-${slug}-${submitterSlug}.json`
FeedbackPath(entry) ==
    <<"feedback/", entry.date, "-">> \o Slug(entry.client) \o <<"-">> \o Slug(entry.submitter)
        \o <<".json">>

\* btoa raises InvalidCharacterError on a character outside Latin1, such
\* as the check mark U+2713.
BtoaThrows(entry) ==
    \E field \in {"client", "submitter", "feedback", "suggestion"} :
        \E i \in 1..Len(entry[field]) : entry[field][i] = "U+2713"

\* What the user can type or select.
FieldValues ==
    [client |-> {<<>>, <<" ">>, <<"A", " ", "B">>},
     submitter |-> {<<>>, <<"J", "o">>},
     feedback |-> {<<>>, <<"o", "k">>, <<"U+2713">>},
     suggestion |-> {<<>>, <<"x", " ">>},
     product |-> {"enhanced", "basic"},
     feedbackType |-> {"generation_learning", "client_reaction"}]

Fields == DOMAIN FieldValues

\* new Date().toISOString().slice(0, 10)
Days == {"2026-02-19"}

\* Answers to window.prompt: Cancel, or a token.
PromptAnswers == {Null, Str("valid token"), Str("revoked token")}

\* const isValid = client.trim() && feedback.trim() && submitter.trim()
isValid ==
    Trim(form.client) # <<>> /\ Trim(form.feedback) # <<>> /\ Trim(form.submitter) # <<>>

\* A submit button that is disabled for incomplete fields only.
SubmitDisabledInvalidOnly == ~isValid

\* A submit button that stays disabled after an error.
SubmitDisabledAfterError == ~isValid \/ form.status \in {"submitting", "error"}

\* disabled={!isValid || status === "submitting"}
SubmitDisabled == ~isValid \/ form.status = "submitting"

MountFeedbackForm ==
    /\ form.t = "unmounted"
    /\ form' = [t |-> "mounted", client |-> <<>>, product |-> "enhanced",
                feedbackType |-> "generation_learning", feedback |-> <<>>,
                suggestion |-> <<>>, submitter |-> <<>>,
                status |-> "idle", errorMessage |-> ""]

\* The portal page mounts its table and its form.
MountPortal ==
    /\ app.t = "unmounted"
    /\ MountDiagnosticsTable
    /\ MountFeedbackForm
    /\ UNCHANGED <<app, storage, repo>>
    /\ UNCHANGED <<rollupVars, objectStatics, matrixVars, roadmapVars, chartVars, deployVars>>

\* onChange of an input, a textarea, the select or the type toggle.
onChange(field, value) ==
    /\ form.t = "mounted"
    /\ form[field] # value
    /\ form' = [form EXCEPT ![field] = value]
    /\ UNCHANGED <<table, app, network, storage, repo>>
    /\ UNCHANGED <<rollupVars, objectStatics, matrixVars, roadmapVars, chartVars, deployVars>>

\* The entry handleSubmit builds from the fields.
FeedbackEntry(date) ==
    [date |-> date, client |-> Trim(form.client), product |-> form.product,
     type |-> form.feedbackType, submitter |-> Trim(form.submitter),
     feedback |-> Trim(form.feedback), suggestion |-> Trim(form.suggestion)]

FeedbackRequests == {r \in network.pending : r.from = "FeedbackForm"}

\* handleSubmit up to the await of the PUT: pushFeedbackToGitHub encodes
\* the entry, reads the token from localStorage or asks for it; a
\* cancelled prompt makes it return false without a request.
handleSubmit(date, prompted) ==
    /\ form.t = "mounted"
    /\ ~SubmitDisabled
    /\ LET entry == FeedbackEntry(date)
           token == IF storage.t = "string" THEN storage ELSE prompted
       IN  IF BtoaThrows(entry)
           THEN /\ form' = [form EXCEPT
                               !.status = "error",
                               !.errorMessage = "Failed to execute 'btoa' on 'Window'"]
                /\ UNCHANGED <<network, storage>>
           ELSE IF token.t = "null"
           THEN /\ form' = [form EXCEPT
                               !.status = "error",
                               !.errorMessage =
                                   "Failed to save feedback. Check your GitHub token and try again."]
                /\ UNCHANGED <<network, storage>>
           ELSE /\ network.sent < MaxRequests
                /\ form' = [form EXCEPT !.status = "submitting", !.errorMessage = ""]
                /\ storage' = token
                /\ Send([from |-> "FeedbackForm", method |-> "PUT",
                         path |-> FeedbackPath(entry), entry |-> entry, token |-> token])
    /\ UNCHANGED <<table, app, repo>>
    /\ UNCHANGED <<rollupVars, objectStatics, matrixVars, roadmapVars, chartVars, deployVars>>

\* What the GitHub contents API can answer to PUT without a sha: 401 for a
\* bad token, 404 for a token that cannot see the repository, 201 for a new
\* path, 422 for a path that exists, 500; or the request fails on the way.
PutOutcomes(request) ==
    {Rejected, Response(500, Null)}
    \cup (IF request.token # Str("valid token")
          THEN {Response(401, Null), Response(404, Null)}
          ELSE IF \E f \in repo : f.path = request.path THEN {Response(422, Null)}
          ELSE {Response(201, Null)})

\* The rest of pushFeedbackToGitHub and of handleSubmit once the PUT settled.
FeedbackSettled(request, outcome) ==
    /\ request \in FeedbackRequests
    /\ outcome \in PutOutcomes(request)
    /\ Settle(request)
    /\ repo' = IF outcome.t = "response" /\ outcome.status = 201
               THEN repo \cup {[path |-> request.path, entry |-> request.entry]}
               ELSE repo
    /\ storage' = IF outcome.t = "response" /\ outcome.status = 401 THEN Null ELSE storage
    /\ form' =
          IF outcome.t = "rejected"
          THEN [form EXCEPT !.status = "error", !.errorMessage = outcome.message.v]
          ELSE IF outcome.status = 401
          THEN [form EXCEPT !.status = "error",
                            !.errorMessage = "Invalid GitHub token. Please try again."]
          ELSE IF outcome.ok
          THEN [form EXCEPT !.status = "success", !.client = <<>>, !.feedback = <<>>,
                            !.suggestion = <<>>]
          ELSE [form EXCEPT
                   !.status = "error",
                   !.errorMessage =
                       "Failed to save feedback. Check your GitHub token and try again."]
    /\ UNCHANGED <<table, app>>
    /\ UNCHANGED <<rollupVars, objectStatics, matrixVars, roadmapVars, chartVars, deployVars>>

InitPortal ==
    /\ PortalIdle
    /\ RoadmapPageIdle
    /\ ChartsIdle
    /\ DeployIdle

NextPortal ==
    \/ MountPortal
    \/ MountApp
    \/ \E outcome \in DiagnosticsOutcomes : DiagnosticsSettled(outcome)
    \/ \E outcome \in AssessmentOutcomes : AssessmentSettled(outcome)
    \/ \E field \in Fields : \E value \in FieldValues[field] : onChange(field, value)
    \/ \E date \in Days, prompted \in PromptAnswers : handleSubmit(date, prompted)
    \/ \E request \in network.pending :
          \E outcome \in {Rejected}
                           \cup {Response(st, Null) : st \in {201, 401, 404, 422, 500}} :
              FeedbackSettled(request, outcome)

SpecPortal == InitPortal /\ [][NextPortal]_vars

(***************************************************************************)
(* Properties of the document loads and of the feedback form.              *)
(***************************************************************************)
\* C14: when the fetch of the source document fails (network error or
\* non-success status) the session shows the bundled static data, not an
\* error or an empty view.
C14_FallbackOnFailure ==
    /\ (table.t = "mounted" /\ table.fetch = "failed") =>
           /\ table.diagnostics = fallbackDiagnostics
           /\ DiagnosticsRows(table.diagnostics, "all").filtered # <<>>
    /\ (app.t = "mounted" /\ app.outcome.t # "pending" /\ Failed(app.outcome)) =>
           /\ AppShows.content # Null
           /\ ~AppShows.banner

\* A PUT settled without the file being created.
PutFailed ==
    /\ \E r \in FeedbackRequests : r \notin FeedbackRequests'
    /\ repo' = repo

\* pushFeedbackToGitHub returned false or threw before any request.
PushFailedUnsent ==
    /\ form.t = "mounted"
    /\ form.status # "submitting"
    /\ network'.sent = network.sent
    /\ form'.status # form.status \/ form'.errorMessage # form.errorMessage

\* C15: a failed feedback submission ends in status 'error' with a
\* non-empty message, leaves client, product, type, submitter, feedback
\* and suggestion as they were, and leaves submit enabled for a retry.
C15_FailureKeepsFields ==
    [][(PutFailed \/ PushFailedUnsent) =>
          /\ form'.status = "error"
          /\ form'.errorMessage # ""
          /\ \A field \in Fields : form'[field] = form[field]
          /\ isValid => ~SubmitDisabled']_vars

C15_Witness ==
    /\ form.t = "mounted"
    /\ form.status = "error"
    /\ form.errorMessage = "Invalid GitHub token. Please try again."
    /\ isValid
    /\ ~SubmitDisabled
    /\ Trim(form.suggestion) # <<>>

\* C16: a request is sent only in the step in which DiagnosticsTable or
\* App mounts or in which the user submits the form, and then exactly
\* one; no step that handles a failed fetch or PUT sends another.
C16_SingleAttempt ==
    [][network'.sent # network.sent =>
          /\ network'.sent = network.sent + 1
          /\ \/ table.t = "unmounted" /\ table'.t = "mounted"
             \/ app.t = "unmounted" /\ app'.t = "mounted"
             \/ form.status # "submitting" /\ form'.status = "submitting"]_vars

C16_Witness ==
    /\ table.t = "mounted"
    /\ table.fetch = "failed"
    /\ form.status = "error"
    /\ form.errorMessage = "Failed to fetch"
    /\ network = [sent |-> 2, pending |-> {}]

\* C20: two distinct feedback entries never get the same file path: a
\* file already saved under the path of an entry being pushed holds that
\* very entry.
C20_DistinctEntriesDistinctPaths ==
    \A r \in FeedbackRequests :
        \A f \in repo : f.path = r.path => f.entry = r.entry

(***************************************************************************)
(* scripts/new-diagnostic.sh and scripts/deploy.sh.  `deploy` holds the    *)
(* runs of deploy.sh: for each its arguments, the position of the script   *)
(* (pc), the commands it has run (effects), its exit code, DEPLOYED_URL    *)
(* and where it came from, and what it read from a registry.  `machine`    *)
(* holds what the scripts share: the directories under output/, the runs   *)
(* of new-diagnostic.sh, whether jq is installed, the local                *)
(* diagnostics.json and diagnostics.json.tmp, and the diagnostics.json on  *)
(* GitHub with its sha.                                                    *)
(* Both scripts run under set -euo pipefail.                               *)
(***************************************************************************)
MaxArgs == 3

MaxScaffolds == 2

Arguments == {"oracle", "basic", "agentic", "assessment", "premium", ""}

\* Of the arguments, those that match ^[a-z][a-z0-9-]*$.
ClientNames == Arguments \ {""}

DeployVarsFrame ==
    UNCHANGED <<rollupVars, objectStatics, matrixVars, roadmapVars, chartVars, portalVars>>

\* A file: absent, empty, holding text that is no JSON, or holding a JSON array.
Absent == [t |-> "absent"]

Empty == [t |-> "empty"]

Invalid == [t |-> "invalid"]

\* NAME of new-diagnostic.sh.
ScaffoldName(client, product) ==
    IF product = "assessment" THEN client \o "-ops-assessment"
    ELSE "nrr-cx-" \o client \o "-" \o product

\* new-diagnostic.sh <client> <product>, from its checks to the printed
\* next steps: exit 1 for a bad client or product or an existing output
\* directory, else the template is copied to output/$NAME.
NewDiagnostic(client, product) ==
    /\ machine.t = "machine"
    /\ Cardinality(machine.scaffolds) < MaxScaffolds
    /\ LET name == ScaffoldName(client, product)
           code == IF client \notin ClientNames THEN 1
                   ELSE IF product \notin {"basic", "enhanced", "assessment"} THEN 1
                   ELSE IF name \in machine.output THEN 1
                   ELSE 0
           run == [client |-> client, product |-> product, code |-> code]
       IN  /\ run \notin machine.scaffolds
           /\ machine' = [machine EXCEPT
                             !.scaffolds = @ \cup {run},
                             !.output = IF code = 0 THEN @ \cup {name} ELSE @]
    /\ UNCHANGED deploy
    /\ DeployVarsFrame

Exit(r, code) == deploy' = [deploy EXCEPT ![r].pc = "exited", ![r].code = code]

Goto(r, pc, effect) ==
    deploy' = [deploy EXCEPT ![r].pc = pc, ![r].effects = @ \cup effect]

\* deploy.sh that only warns about an unknown product.
ValidateArgumentsWarnOnly(r) ==
    /\ deploy[r].pc = "arguments"
    /\ IF Len(deploy[r].args) # 2 THEN Exit(r, 1) ELSE Goto(r, "output dir", {})
    /\ UNCHANGED machine
    /\ DeployVarsFrame

\* Lines 36-47: the argument count and the product.
ValidateArguments(r) ==
    /\ deploy[r].pc = "arguments"
    /\ IF Len(deploy[r].args) # 2 THEN Exit(r, 1)
       ELSE IF deploy[r].args[2] \notin {"basic", "enhanced", "agentic"} THEN Exit(r, 1)
       ELSE Goto(r, "output dir", {})
    /\ UNCHANGED machine
    /\ DeployVarsFrame

\* NAME of deploy.sh.
DeployName(client, product) ==
    IF product = "agentic" THEN "agentic-cx-" \o client
    ELSE "nrr-cx-" \o client \o "-" \o product

\* Lines 49-62: output/$NAME must exist.
CheckOutputDir(r) ==
    /\ deploy[r].pc = "output dir"
    /\ IF DeployName(deploy[r].args[1], deploy[r].args[2]) \in machine.output
       THEN Goto(r, "package.json", {})
       ELSE Exit(r, 1)
    /\ UNCHANGED machine
    /\ DeployVarsFrame

\* Lines 64-67: and hold a package.json.
CheckPackageJson(r, found) ==
    /\ deploy[r].pc = "package.json"
    /\ IF found THEN Goto(r, "install", {}) ELSE Exit(r, 1)
    /\ UNCHANGED machine
    /\ DeployVarsFrame

\* Lines 72-79: npm install and npm run build; set -e ends the script
\* with the status of a failing command.
NpmInstall(r, succeeds) ==
    /\ deploy[r].pc = "install"
    /\ IF succeeds THEN Goto(r, "build", {"npm install"})
       ELSE deploy' = [deploy EXCEPT ![r].pc = "exited", ![r].code = 1,
                                     ![r].effects = @ \cup {"npm install"}]
    /\ UNCHANGED machine
    /\ DeployVarsFrame

NpmBuild(r, succeeds) ==
    /\ deploy[r].pc = "build"
    /\ IF succeeds THEN Goto(r, "deploy", {"npm run build"})
       ELSE deploy' = [deploy EXCEPT ![r].pc = "exited", ![r].code = 1,
                                     ![r].effects = @ \cup {"npm run build"}]
    /\ UNCHANGED machine
    /\ DeployVarsFrame

\* Lines 82-102: if DEPLOYED_URL=$(npx vercel --prod 2>&1 | tee | grep -oE
\* 'https://[^ ]+' | tail -1).  The assignment takes the last URL of the
\* output whatever the status of the pipeline; the status only chooses
\* between the two messages.
VercelDeploy(r, hasNpx, succeeds, printed) ==
    /\ deploy[r].pc = "deploy"
    /\ LET url == IF hasNpx THEN printed ELSE ""
           from == IF url = "" THEN "none"
                   ELSE IF succeeds THEN "vercel deployed"
                   ELSE "vercel failed"
       IN  deploy' = [deploy EXCEPT
                         ![r].pc = IF url = "" THEN "ask url" ELSE "registry",
                         ![r].effects = IF hasNpx THEN @ \cup {"npx vercel --prod"} ELSE @,
                         ![r].url = url,
                         ![r].urlFrom = from]
    /\ UNCHANGED machine
    /\ DeployVarsFrame

\* Lines 104-113: without a URL the operator is asked for one; without
\* that the script ends with exit 0 before the registry.
AskUrl(r, typed) ==
    /\ deploy[r].pc = "ask url"
    /\ IF typed = "" THEN Exit(r, 0)
       ELSE deploy' = [deploy EXCEPT ![r].pc = "registry", ![r].url = typed,
                                     ![r].urlFrom = "operator"]
    /\ UNCHANGED machine
    /\ DeployVarsFrame

\* NEW_ENTRY, without the fields typed in or taken from the clock.
NewEntry(run) ==
    [client |-> run.args[1], product |-> run.args[2], url |-> run.url, status |-> "deployed"]

\* Lines 148-156: no local file, nothing to do.  With jq the shell
\* truncates diagnostics.json.tmp and jq reads diagnostics.json (no value
\* in an empty file, an error for text that is no JSON).  Without jq, sed
\* and two echo commands put the entry before the closing bracket.
UpdateLocal(r) ==
    /\ deploy[r].pc = "registry"
    /\ IF machine.registry = Absent
       THEN /\ Goto(r, "token", {})
            /\ UNCHANGED machine
       ELSE IF machine.jq
       THEN /\ machine' = [machine EXCEPT !.tmp = Empty]
            /\ IF machine.registry = Invalid THEN Exit(r, 2)
               ELSE deploy' = [deploy EXCEPT ![r].pc = "jq", ![r].current = machine.registry,
                                             ![r].out = "tmp"]
       ELSE /\ machine' = [machine EXCEPT
                              !.registry = IF @.t = "array"
                                           THEN Arr(Append(@.a, NewEntry(deploy[r])))
                                           ELSE Invalid]
            /\ Goto(r, "token", {"local registry"})
    /\ DeployVarsFrame

\* Line 151: jq writes what it read with the entry appended, into the
\* file the shell opened for it, which is diagnostics.json by now if
\* another run has moved it there.
JqWrite(r) ==
    /\ deploy[r].pc = "jq"
    /\ LET written == IF deploy[r].current.t = "array"
                      THEN Arr(Append(deploy[r].current.a, NewEntry(deploy[r])))
                      ELSE Empty
       IN  machine' = IF deploy[r].out = "tmp" THEN [machine EXCEPT !.tmp = written]
                      ELSE [machine EXCEPT !.registry = written]
    /\ Goto(r, "mv", {})
    /\ DeployVarsFrame

\* Line 152: mv "$REGISTRY.tmp" "$REGISTRY"; a run whose jq has the file
\* open goes on writing to it under its new name.
Mv(r) ==
    /\ deploy[r].pc = "mv"
    /\ IF machine.tmp = Absent
       THEN /\ Exit(r, 1)
            /\ UNCHANGED machine
       ELSE /\ machine' = [machine EXCEPT !.registry = machine.tmp, !.tmp = Absent]
            /\ deploy' = [q \in DOMAIN deploy |->
                             IF q = r
                             THEN [deploy[q] EXCEPT !.pc = "token",
                                                    !.effects = @ \cup {"local registry"}]
                             ELSE IF deploy[q].pc = "jq"
                             THEN [deploy[q] EXCEPT !.out = "diagnostics.json"]
                             ELSE deploy[q]]
    /\ DeployVarsFrame

\* Lines 162-175: without a token the remote registry is skipped.
FindToken(r, hasToken) ==
    /\ deploy[r].pc = "token"
    /\ IF hasToken THEN Goto(r, "get", {}) ELSE Exit(r, 0)
    /\ UNCHANGED machine
    /\ DeployVarsFrame

GetOutcomes == {"curl failed", "document", "error document", "no JSON"}

\* Lines 180-198: GET of the file.  A failing curl ends the script; the
\* file's document gives sha and content; an error document ({"message":
\* ...}) gives the sha '' and the content '', which json.load refuses,
\* and the script ends; a body that is no JSON gives '' and '[]'.
GetRegistry(r, outcome) ==
    /\ deploy[r].pc = "get"
    /\ IF outcome = "curl failed" THEN Exit(r, 7)
       ELSE IF outcome = "error document" THEN Exit(r, 1)
       ELSE IF outcome = "document"
       THEN deploy' = [deploy EXCEPT ![r].pc = "put", ![r].sha = machine.remote.sha,
                                     ![r].current = Arr(machine.remote.content)]
       ELSE deploy' = [deploy EXCEPT ![r].pc = "put", ![r].sha = 0,
                                     ![r].current = Arr(<<>>)]
    /\ UNCHANGED machine
    /\ DeployVarsFrame

PutOutcomesOfRegistry == {"curl failed", "server error", "processed"}

\* Lines 200-219: PUT of the content with the entry appended, under the
\* sha that was read.  GitHub replaces the file when the sha is the
\* file's and refuses otherwise; the script ends with "Deploy complete!"
\* either way, and with curl's status when curl fails.
PutRegistry(r, outcome) ==
    /\ deploy[r].pc = "put"
    /\ IF outcome = "curl failed"
       THEN /\ Exit(r, 7)
            /\ UNCHANGED machine
       ELSE IF outcome = "processed" /\ deploy[r].sha = machine.remote.sha
       THEN /\ machine' = [machine EXCEPT
                              !.remote = [content |-> Append(deploy[r].current.a,
                                                             NewEntry(deploy[r])),
                                          sha |-> @.sha + 1]]
            /\ deploy' = [deploy EXCEPT ![r].pc = "exited", ![r].code = 0,
                                        ![r].effects = @ \cup {"remote registry"}]
       ELSE /\ Exit(r, 0)
            /\ UNCHANGED machine
    /\ DeployVarsFrame

\* A run of deploy.sh at its first line.
Run(args) ==
    [args |-> args, pc |-> "arguments", code |-> 0, effects |-> {},
     url |-> "", urlFrom |-> "none", current |-> Absent, out |-> "", sha |-> 0]

\* An entry that is in both registries already.
OldEntry ==
    [client |-> "sap", product |-> "basic", url |-> "https://sap.vercel.app",
     status |-> "deployed"]

Machines ==
    {[t |-> "machine", output |-> out, scaffolds |-> {}, jq |-> jq, registry |-> reg,
      tmp |-> Absent, remote |-> [content |-> <<OldEntry>>, sha |-> 1]] :
        out \in {{"agentic-cx-oracle"}},
        jq \in BOOLEAN,
        reg \in {Absent, Arr(<<OldEntry>>)}}

\* The arguments new-diagnostic.sh is run with.
ScaffoldArguments ==
    {<<"oracle", "basic">>, <<"oracle", "assessment">>, <<"oracle", "premium">>, <<"", "basic">>}

InitDeploy ==
    /\ deploy \in {<<Run(a)>> : a \in SeqsUpTo(Arguments, MaxArgs)}
    /\ machine \in Machines
    /\ RoadmapPageIdle
    /\ ChartsIdle
    /\ PortalIdle

NextDeploy ==
    \/ \E arguments \in ScaffoldArguments : NewDiagnostic(arguments[1], arguments[2])
    \/ \E r \in DOMAIN deploy : ValidateArguments(r)
    \/ \E r \in DOMAIN deploy : CheckOutputDir(r)
    \/ \E r \in DOMAIN deploy, found \in BOOLEAN : CheckPackageJson(r, found)
    \/ \E r \in DOMAIN deploy, succeeds \in BOOLEAN : NpmInstall(r, succeeds)
    \/ \E r \in DOMAIN deploy, succeeds \in BOOLEAN : NpmBuild(r, succeeds)
    \/ \E r \in DOMAIN deploy, hasNpx \in BOOLEAN, succeeds \in BOOLEAN,
          printed \in {"", "https://x.vercel.app"} : VercelDeploy(r, hasNpx, succeeds, printed)
    \/ \E r \in DOMAIN deploy, typed \in {"", "https://typed.example"} : AskUrl(r, typed)
    \/ \E r \in DOMAIN deploy : UpdateLocal(r)
    \/ \E r \in DOMAIN deploy : JqWrite(r)
    \/ \E r \in DOMAIN deploy : Mv(r)
    \/ \E r \in DOMAIN deploy, hasToken \in BOOLEAN : FindToken(r, hasToken)
    \/ \E r \in DOMAIN deploy, outcome \in GetOutcomes : GetRegistry(r, outcome)
    \/ \E r \in DOMAIN deploy, outcome \in PutOutcomesOfRegistry : PutRegistry(r, outcome)

SpecDeploy == InitDeploy /\ [][NextDeploy]_vars

\* A run of deploy.sh that has reached step 4 with the URL of its deployment.
RunAtRegistry(client, product) ==
    [Run(<<client, product>>) EXCEPT
        !.pc = "registry",
        !.effects = {"npm install", "npm run build", "npx vercel --prod"},
        !.url = "https://" \o client \o ".vercel.app",
        !.urlFrom = "vercel deployed"]

\* Two runs of deploy.sh on one checkout, both about to update the registry.
InitRegistry ==
    /\ deploy = <<RunAtRegistry("oracle", "basic"), RunAtRegistry("adobe", "enhanced")>>
    /\ machine \in {[m EXCEPT !.output = {"nrr-cx-oracle-basic", "nrr-cx-adobe-enhanced"}] :
                       m \in Machines}
    /\ RoadmapPageIdle
    /\ ChartsIdle
    /\ PortalIdle

NextRegistry ==
    \/ \E r \in DOMAIN deploy : UpdateLocal(r)
    \/ \E r \in DOMAIN deploy : JqWrite(r)
    \/ \E r \in DOMAIN deploy : Mv(r)
    \/ \E r \in DOMAIN deploy, hasToken \in BOOLEAN : FindToken(r, hasToken)
    \/ \E r \in DOMAIN deploy, outcome \in GetOutcomes : GetRegistry(r, outcome)
    \/ \E r \in DOMAIN deploy, outcome \in PutOutcomesOfRegistry : PutRegistry(r, outcome)

SpecRegistry == InitRegistry /\ [][NextRegistry]_vars

\* C19: unless deploy.sh gets exactly two arguments and the product is
\* basic, enhanced or agentic, it exits with an error and has not
\* installed, built, deployed or touched the registry.
C19_BadArgumentsExit ==
    \A r \in DOMAIN deploy :
        (deploy[r].pc # "arguments"
            /\ (Len(deploy[r].args) # 2 \/ deploy[r].args[2] \notin Products)) =>
                /\ deploy[r].pc = "exited"
                /\ deploy[r].code # 0
                /\ deploy[r].effects = {}

C19_Witness ==
    /\ DOMAIN deploy = {1}
    /\ deploy[1].args = <<"oracle", "premium">>
    /\ deploy[1].pc = "exited"
    /\ deploy[1].code = 1
    /\ deploy[1].effects = {}

\* The same items with lever and year blanked out.
WithoutLeverAndYear(its) ==
    [i \in 1..Len(its) |-> [its[i] EXCEPT !.lever = "", !.year = 0]]

\* C27: what FunctionRollup renders depends only on function_key, function
\* and impact_ftes of the items: it equals what it renders for the same
\* items with lever and year blanked out, so lists that differ only in
\* lever or year render alike and mixed input is aggregated as it comes.
C27_LeverAndYearIgnored ==
    chart.t = "FunctionRollup" =>
        LET out == FunctionRollup(WithoutLeverAndYear(props.items), InitialStatics)
        IN  /\ chart.groups = out.groups
            /\ chart.totalFtes = out.totalFtes

C27_Witness ==
    /\ chart.t = "FunctionRollup"
    /\ Len(props.items) = 2
    /\ props.items[1].function_key = props.items[2].function_key
    /\ props.items[1].lever # props.items[2].lever
    /\ props.items[1].year # props.items[2].year
    /\ Len(chart.groups) = 1
    /\ chart.groups[1].count = Num(2)

DistinctThresholds ==
    /\ props.peers.topQuartile > props.peers.median
    /\ props.peers.median > props.peers.bottomQuartile

CardHolds(card, n) == IF card.relation = ">=" THEN n >= card.value ELSE n <= card.value

\* C28: with distinct, ordered thresholds a non-target peer bar is coloured Q1
\* exactly when its NRR meets the top-quartile stat card (>= topQuartile)
\* and Q4 exactly when it meets the bottom-quartile card (<= bottomQuartile).
C28_BarsAgreeWithCards ==
    (chart.t = "NRRBenchmark" /\ DistinctThresholds) =>
        \A i \in PeerBars :
            /\ QuartileOf(chart.chartData[i].fill) = 1
                   <=> CardHolds(chart.statCards.Q1, chart.chartData[i].nrr)
            /\ QuartileOf(chart.chartData[i].fill) = 4
                   <=> CardHolds(chart.statCards.Q4, chart.chartData[i].nrr)

\* The two messages that tell the user to check the token and try again.
TokenMessages ==
    {"Failed to save feedback. Check your GitHub token and try again.",
     "Invalid GitHub token. Please try again."}

\* C24: while the form shows one of the two check-your-token messages no
\* token is stored, so that the next submission asks for a token instead
\* of reusing the one that just failed.
C24_FailedTokenAskedAgain ==
    (form.t = "mounted" /\ form.status = "error" /\ form.errorMessage \in TokenMessages)
        => storage.t # "string"

\* C25: no step leaves more than one feedback PUT pending; a step taken
\* while status is 'submitting' sends no request; and the step that
\* settles a PUT leaves status 'success' or 'error'.
C25_OneSubmissionInFlight ==
    [][/\ Cardinality(FeedbackRequests') <= 1
       /\ (form.t = "mounted" /\ form.status = "submitting")
              => network'.sent = network.sent
       /\ (\E r \in FeedbackRequests : r \notin FeedbackRequests')
              => form'.status \in {"success", "error"}]_vars

C25_Witness ==
    /\ form.t = "mounted"
    /\ form.status = "submitting"
    /\ isValid
    /\ Cardinality(FeedbackRequests) = 1
    /\ network.sent >= 3

\* C26: once the fetch of /assessment.json settled App is not loading,
\* exactly one of assessment and error is set, and the content is shown
\* only with data and never together with the error banner.
C26_DataOrError ==
    (app.t = "mounted" /\ app.outcome.t # "pending") =>
        /\ ~app.isLoading
        /\ (app.assessment.t # "null") # (app.error.t # "null")
        /\ AppShows.content # Null => (app.assessment.t # "null" /\ ~AppShows.banner)

\* The weight of a severity as stated: high 3, medium 2, low 1, else 2.
StatedWeight(severity) ==
    IF severity = "high" THEN 3 ELSE IF severity = "low" THEN 1 ELSE 2

RECURSIVE StatedScore(_)
StatedScore(findings) ==
    IF findings = <<>> THEN 0
    ELSE StatedWeight(Head(findings).severity) + StatedScore(Tail(findings))

StatedHealth(stage) ==
    IF stage.strengths = <<>> /\ stage.painPoints = <<>> THEN "bg-slate-100"
    ELSE IF StatedScore(stage.painPoints) > StatedScore(stage.strengths) THEN "bg-red-100"
    ELSE IF StatedScore(stage.strengths) > StatedScore(stage.painPoints) THEN "bg-emerald-100"
    ELSE "bg-amber-100"

SwapRedGreen(bg) ==
    IF bg = "bg-red-100" THEN "bg-emerald-100"
    ELSE IF bg = "bg-emerald-100" THEN "bg-red-100"
    ELSE bg

\* C29: a stage is neutral without findings, else red, green or amber as
\* the pain-point score exceeds, is exceeded by or equals the strength
\* score under the weights high 3, medium 2, low 1 and 2 for any other
\* severity; the stage with strengths and pain points swapped has red
\* and green swapped and amber and neutral unchanged.
C29_StageHealth ==
    chart.t = "JourneyStage" =>
        \A v \in StageVariants :
            /\ chart.health[v].bg = StatedHealth(props.stage)
            /\ stageHealthColor(v, [strengths |-> props.stage.painPoints,
                                    painPoints |-> props.stage.strengths]).bg
                   = SwapRedGreen(chart.health[v].bg)

\* A quotient with a non-zero divisor, or one of the defaults null and 0.
Defined(x) == x.t \in {"quotient", "null"} \/ x = Num(0)

\* C30: every ratio of the assessment UI has a non-zero divisor or is
\* replaced by a default: combinedPct is a number or null, the dollar
\* chart is omitted or all its widths are quotients, and so are the peer
\* comparison and the width of BarCompare, zeros among the inputs included.
C30_RatiosDefined ==
    /\ chart.t = "ExecutiveSummary" =>
           /\ chart.combinedPct.t \in {"number", "null"}
           /\ chart.combinedPct.t = "null" <=> props.summary.total_customer_ops_ftes <= 0
    /\ chart.t = "DollarImpactChart" =>
           \/ chart.bars = Null
           \/ \A i \in 1..Len(chart.bars.a) :
                 /\ Defined(chart.bars.a[i].prodWidth)
                 /\ Defined(chart.bars.a[i].aiWidth)
                 /\ Defined(chart.bars.a[i].offWidth)
    /\ chart.t = "PeerComparison" =>
           \/ chart.widths = Null
           \/ \A i \in 1..Len(chart.widths.a) : Defined(chart.widths.a[i])
    /\ chart.t = "BarCompare" => Defined(chart.width)

\* The run was told by the next steps of a scaffold that succeeded.
Instructed(r) ==
    \E s \in machine.scaffolds : s.code = 0 /\ deploy[r].args = <<s.client, s.product>>

\* C21: a run of deploy.sh with the client and product of a scaffold that
\* new-diagnostic.sh accepted does not end at the product validation or
\* at the check for the output directory.
C21_ScaffoldThenDeploy ==
    [][\A r \in DOMAIN deploy :
          (Instructed(r) /\ deploy[r].pc \in {"arguments", "output dir"})
              => deploy'[r].pc # "exited"]_vars

RegistryChanged ==
    machine'.registry # machine.registry \/ machine'.remote # machine.remote

\* C22: a step of a run that changes a diagnostics.json comes after npm
\* install and npm run build and with a URL that a successful Vercel
\* deploy printed or the operator typed, and the entry it builds has
\* status 'deployed'; a run that ends without a URL ends with exit 0 and
\* leaves both registries as they were.
C22_EntryOnlyAfterDeploy ==
    [][\A r \in DOMAIN deploy :
          /\ (RegistryChanged /\ deploy'[r] # deploy[r]) =>
                 /\ {"npm install", "npm run build"} \subseteq deploy[r].effects
                 /\ deploy[r].urlFrom \in {"vercel deployed", "operator"}
                 /\ NewEntry(deploy[r]).status = "deployed"
          /\ (deploy[r].pc = "ask url" /\ deploy'[r].pc = "exited") =>
                 /\ deploy'[r].code = 0
                 /\ deploy'[r].url = ""
                 /\ ~RegistryChanged]_vars

Entries(file) == IF file.t = "array" THEN file.a ELSE <<>>

\* The new content is the old one, or the old one with one entry appended.
AppendedTo(old, new) ==
    \/ new = old
    \/ /\ Len(new) = Len(old) + 1
       /\ SubSeq(new, 1, Len(old)) = old

\* C23: every step leaves the entries of the local and of the remote
\* diagnostics.json in place and adds at most one at the end, whatever
\* the runs of deploy.sh do and however they overlap.
C23_AppendOnly ==
    [][/\ AppendedTo(Entries(machine.registry), Entries(machine'.registry))
       /\ AppendedTo(machine.remote.content, machine'.remote.content)]_vars
====
